---------------------------- MODULE Spec2Model ----------------------------
(***************************************************************************)
(* A model of sqlp's query construction layer: the condition AST           *)
(* (types.py), the ConditionCompiler and the Select / Insert / Update /    *)
(* Delete query builders (sql.py), and the SchemaRegistry the builders     *)
(* consult for offline validation (snapshot.py).                           *)
(*                                                                         *)
(* SQL text is a sequence of tokens: every piece the code interpolates     *)
(* into an f-string is one token, the ", " of a join is the token ",",     *)
(* and the "\n" between clauses is the token "\n".  A Python value is a    *)
(* record [ty, items]; an Optional is a sequence of length 0 (None) or 1.  *)
(***************************************************************************)
EXTENDS Integers, Sequences, FiniteSets, TLC

(***************************************************************************)
(* Bounds of the model.                                                    *)
(***************************************************************************)
MaxBuilds == 2      \* build() calls on one builder
MaxClauses == 2     \* JOIN and ORDER BY clauses recorded on one SelectQueryBuilder
MaxRows == 2        \* rows accumulated by one InsertQueryBuilder
MaxCompiles == 2    \* compile() calls on one standalone ConditionCompiler
MaxSets == 3        \* set() calls on one UpdateQueryBuilder whose arguments are recorded
MaxCompose == 2     \* & and | operations made one after the other
MaxCompounds == 2   \* CompoundCondition objects made from the same column conditions
MaxQueries == 2     \* queries made of one SchemaRegistry
MaxTrips == 2       \* snapshots taken from declared tables, written and read back

VARIABLES
    builder,        \* the query builder in use, or NoBuilder before construction
    joinBuilders,   \* the JoinBuilder objects join() has returned
    cc,             \* a standalone ConditionCompiler, None before construction
    compiled,       \* history: the conditions passed to cc.compile(), in call order
    last,           \* the last call made and what it returned or raised
    onCalls,        \* history: the (join_type, table, condition) of every on() call
    wheres,         \* history: the conditions of the latest two where() calls, in order
    builds,         \* history: the exception ("" for none) of every build() call, in order
    sets,           \* history: the keyword arguments of the set() calls SpecSet makes
    composed,       \* history: the operator, operands and result of the & and | made
    heap,           \* the condition objects and their lists of children, by identity
    trips,          \* history: the round trips of snapshots through their JSON document
    reg,            \* a SchemaRegistry wrapping a snapshot, None before construction
    asked,          \* history: the queries made of reg and what each returned or raised
    compat,         \* the latest pair of type names compared, with the answer in each direction
    validation,     \* one validate_schema call: its arguments, its position, its queries and its outcome
    made,           \* the latest Column constructed: its arguments and what the construction gave
    meta,           \* the latest TableMetadata constructed: its arguments and what the construction gave
    named,          \* the table names derived from class names, in call order
    instances,      \* the builders constructed side by side, the calls made on each and what each call returned
    executable,     \* an ExecutableQuery: its builder, the builder as the caller set it up, and the statements sent to the pool
    pool,           \* an AsyncPool, the task inside its transaction() block and the statements the database was sent
    subclasses      \* the Table subclasses declared and the snapshot from_tables made of them

\* the variables of the builders, the compiler and the histories of their calls
sqlVars ==
    <<builder, joinBuilders, cc, compiled, last, onCalls, wheres, builds, sets, composed>>

\* the variables no builder and no compiler reads or writes
typeVars == <<heap, trips, reg, asked, compat, validation, made, meta, named, instances, executable, pool, subclasses>>

vars ==
    <<builder, joinBuilders, cc, compiled, last, onCalls, wheres, builds, sets, composed,
      heap, trips, reg, asked, compat, validation, made, meta, named, instances, executable, pool, subclasses>>

(***************************************************************************)
(* Python values.                                                          *)
(***************************************************************************)
PyInt(n) == [ty |-> "int", items |-> <<n>>]
PyStr(n) == [ty |-> "str", items |-> <<n>>]
PyList(s) == [ty |-> "list", items |-> s]
PyTuple(s) == [ty |-> "tuple", items |-> s]
PyNone == [ty |-> "NoneType", items |-> <<>>]

None == <<>>
Some(x) == <<x>>

(***************************************************************************)
(* types.py: ColumnRef, ColumnCondition, CompoundCondition.                *)
(***************************************************************************)
ColumnRef(column_name, python_type) ==
    [column_name |-> column_name, python_type |-> python_type]

ColumnCondition(column_name, operator, value, python_type) ==
    [column_name |-> column_name, operator |-> operator,
     value |-> value, python_type |-> python_type]

CompoundCondition(conditions, operator) ==
    [conditions |-> conditions, operator |-> operator]

\* isinstance(condition, ColumnCondition)
IsColumnCondition(c) == "column_name" \in DOMAIN c

RefEq(ref, other) == ColumnCondition(ref.column_name, "=", other, ref.python_type)
RefGt(ref, other) == ColumnCondition(ref.column_name, ">", other, ref.python_type)
RefLike(ref, pattern) == ColumnCondition(ref.column_name, "LIKE", pattern, ref.python_type)
RefIn(ref, values) == ColumnCondition(ref.column_name, "IN", values, ref.python_type)
RefIsNull(ref) == ColumnCondition(ref.column_name, "IS NULL", PyNone, ref.python_type)
RefIsNotNull(ref) ==
    ColumnCondition(ref.column_name, "IS NOT NULL", PyNone, ref.python_type)

\* a faulty __and__: a compound AND is never extended, the result always nests
CondAndNests(self, other) ==
    CompoundCondition(<<self, other>>, "AND")

\* ColumnCondition.__and__ / __or__ and CompoundCondition.__and__ / __or__
CondAnd(self, other) ==
    IF IsColumnCondition(self)
    THEN CompoundCondition(<<self, other>>, "AND")
    ELSE IF self.operator = "AND" /\ IsColumnCondition(other)
         THEN CompoundCondition(Append(self.conditions, other), "AND")
         ELSE CompoundCondition(<<self, other>>, "AND")

CondOr(self, other) ==
    IF IsColumnCondition(self)
    THEN CompoundCondition(<<self, other>>, "OR")
    ELSE IF self.operator = "OR" /\ IsColumnCondition(other)
         THEN CompoundCondition(Append(self.conditions, other), "OR")
         ELSE CompoundCondition(<<self, other>>, "OR")

(***************************************************************************)
(* sql.py: SQLStatement and the outcome of a call.  A call either returns  *)
(* (exc = "") or raises exc with message msg, a sequence of the pieces of  *)
(* the message's f-string.                                                 *)
(***************************************************************************)
SQLStatement(text, parameters) == [text |-> text, parameters |-> parameters]

NoStatement == SQLStatement(<<>>, <<>>)

Returned(op, stmt) == [op |-> op, exc |-> "", msg |-> <<>>, stmt |-> stmt]

\* what a builder method that ends in `return self` returns
ReturnedSelf == Returned("method", NoStatement)
Raised(op, exc, msg) == [op |-> op, exc |-> exc, msg |-> msg, stmt |-> NoStatement]

(***************************************************************************)
(* sql.py: ConditionCompiler.                                              *)
(***************************************************************************)
Dialects == {"postgresql", "sqlite", "mysql"}

NewConditionCompiler(sql_dialect) ==
    [sql_dialect |-> sql_dialect, parameters |-> <<>>, _param_counter |-> 0]

\* a faulty _next_placeholder: the postgresql counter is never advanced
NextPlaceholderStuck(c) ==
    IF c.sql_dialect = "postgresql"
    THEN [ph |-> "$" \o ToString(c._param_counter + 1), c |-> c]
    ELSE IF c.sql_dialect = "sqlite"
         THEN [ph |-> "?", c |-> c]
         ELSE [ph |-> "%s", c |-> c]

\* _next_placeholder: the placeholder and the compiler after the call
NextPlaceholder(c) ==
    IF c.sql_dialect = "postgresql"
    THEN [ph |-> "$" \o ToString(c._param_counter + 1),
          c |-> [c EXCEPT !._param_counter = @ + 1]]
    ELSE IF c.sql_dialect = "sqlite"
         THEN [ph |-> "?", c |-> c]
         ELSE [ph |-> "%s", c |-> c]

\* [self._next_placeholder() for _ in value]: n placeholders in a row
RECURSIVE NextPlaceholders(_, _)
NextPlaceholders(c, n) ==
    IF n = 0
    THEN [phs |-> <<>>, c |-> c]
    ELSE LET r == NextPlaceholder(c)
             rest == NextPlaceholders(r.c, n - 1)
         IN [phs |-> <<r.ph>> \o rest.phs, c |-> rest.c]

\* sep.join(parts), parts a sequence of token sequences
RECURSIVE JoinTokens(_, _)
JoinTokens(parts, sep) ==
    IF Len(parts) = 0 THEN <<>>
    ELSE IF Len(parts) = 1 THEN parts[1]
    ELSE parts[1] \o <<sep>> \o JoinTokens(Tail(parts), sep)

Singletons(s) == [i \in DOMAIN s |-> <<s[i]>>]

\* the outcome of a compile: the fragment, the compiler afterwards, and the
\* exception if one was raised (the compiler then keeps what was done before it)
Compiled(sql, c) == [exc |-> "", msg |-> <<>>, sql |-> sql, c |-> c]
CompileRaised(exc, msg, c) == [exc |-> exc, msg |-> msg, sql |-> <<>>, c |-> c]

\* a faulty _compile_simple: IN issues its placeholders before it checks the
\* value, and appends the list as one parameter
CompileSimpleAppendsList(c, condition) ==
    LET col_name == condition.column_name
        operator == condition.operator
        value == condition.value
    IN IF operator = "IS NULL" THEN Compiled(<<col_name, "IS NULL">>, c)
       ELSE IF operator = "IS NOT NULL" THEN Compiled(<<col_name, "IS NOT NULL">>, c)
       ELSE IF operator = "IN"
            THEN LET r == NextPlaceholders(c, Len(value.items))
                 IN IF value.ty # "list"
                    THEN CompileRaised("AssertionError", <<"IN operator requires a list">>,
                                       r.c)
                    ELSE Compiled(<<col_name, "IN", "(">>
                                    \o JoinTokens(Singletons(r.phs), ",") \o <<")">>,
                                  [r.c EXCEPT !.parameters = Append(@, value)])
            ELSE LET r == NextPlaceholder(c)
                 IN Compiled(<<col_name, operator, r.ph>>,
                             [r.c EXCEPT !.parameters = Append(@, value)])

CompileSimple(c, condition) ==
    LET col_name == condition.column_name
        operator == condition.operator
        value == condition.value
    IN IF operator = "IS NULL" THEN Compiled(<<col_name, "IS NULL">>, c)
       ELSE IF operator = "IS NOT NULL" THEN Compiled(<<col_name, "IS NOT NULL">>, c)
       ELSE IF operator = "IN"
            THEN IF value.ty # "list"
                 THEN CompileRaised("AssertionError", <<"IN operator requires a list">>, c)
                 ELSE LET r == NextPlaceholders(c, Len(value.items))
                          elems == [i \in DOMAIN value.items |-> PyInt(value.items[i])]
                      IN Compiled(<<col_name, "IN", "(">>
                                    \o JoinTokens(Singletons(r.phs), ",") \o <<")">>,
                                  [r.c EXCEPT !.parameters = @ \o elems])
            ELSE LET r == NextPlaceholder(c)
                 IN Compiled(<<col_name, operator, r.ph>>,
                             [r.c EXCEPT !.parameters = Append(@, value)])

RECURSIVE Compile(_, _)
RECURSIVE CompileParts(_, _, _)

\* the loop of _compile_compound over conditions[i..], parts compiled so far
CompileParts(c, conds, parts) ==
    IF Len(conds) = 0
    THEN [exc |-> "", msg |-> <<>>, parts |-> parts, c |-> c]
    ELSE LET r == Compile(c, Head(conds))
         IN IF r.exc # ""
            THEN [exc |-> r.exc, msg |-> r.msg, parts |-> parts, c |-> r.c]
            ELSE CompileParts(r.c, Tail(conds),
                              Append(parts, <<"(">> \o r.sql \o <<")">>))

CompileCompound(c, condition) ==
    LET r == CompileParts(c, condition.conditions, <<>>)
    IN IF r.exc # ""
       THEN CompileRaised(r.exc, r.msg, r.c)
       ELSE Compiled(JoinTokens(r.parts, condition.operator), r.c)

Compile(c, condition) ==
    IF IsColumnCondition(condition)
    THEN CompileSimple(c, condition)
    ELSE CompileCompound(c, condition)

(***************************************************************************)
(* table.py / snapshot.py: declared tables, SchemaSnapshot, SchemaRegistry *)
(***************************************************************************)
Column(name, python_type, primary_key) ==
    [name |-> name, python_type |-> python_type, primary_key |-> primary_key]

\* a declared Table class: its metadata's name and columns
Table(name, columns) == [name |-> name, columns |-> columns]

TableName(table) == table.name

TableSnapshot(name, columns, primary_key) ==
    [name |-> name, columns |-> columns, primary_key |-> primary_key]

SnapshotFromTables(table_classes) ==
    [tables |->
        {TableSnapshot(TableName(t),
                       {t.columns[i].name : i \in DOMAIN t.columns},
                       LET pk == {j \in DOMAIN t.columns : t.columns[j].primary_key}
                       IN IF pk = {} THEN None
                          ELSE Some(t.columns[CHOOSE j \in pk : TRUE].name))
           : t \in table_classes},
     version |-> "1.0"]

SchemaRegistry(snapshot) == [snapshot |-> snapshot]

table_exists(registry, table_name) ==
    \E t \in registry.snapshot.tables : t.name = table_name

get_table(registry, table_name) ==
    CHOOSE t \in registry.snapshot.tables : t.name = table_name

column_exists(registry, table_name, column_name) ==
    IF ~table_exists(registry, table_name)
    THEN FALSE
    ELSE column_name \in get_table(registry, table_name).columns

(***************************************************************************)
(* sql.py: the clauses.                                                    *)
(***************************************************************************)
JoinClause(join_type, table, on_condition) ==
    [join_type |-> join_type, table |-> table, on_condition |-> on_condition]

OrderByClause(column_name, direction) ==
    [column_name |-> column_name, direction |-> direction]

\* SelectClause.to_sql with columns = None
SelectClauseToSql(tables) ==
    <<"SELECT", "*", "FROM">>
        \o JoinTokens([i \in DOMAIN tables |-> <<TableName(tables[i])>>], ",")

\* JoinClause.to_sql: a compile outcome
JoinClauseToSql(join, c) ==
    LET head == <<join.join_type, "JOIN", TableName(join.table)>>
    IN IF join.on_condition # None
       THEN LET r == Compile(c, join.on_condition[1])
            IN IF r.exc # "" THEN r
               ELSE Compiled(head \o <<"ON">> \o r.sql, r.c)
       ELSE Compiled(head, c)

\* WhereClause.to_sql: a compile outcome
WhereClauseToSql(condition, c) ==
    LET r == Compile(c, condition)
    IN IF r.exc # "" THEN r ELSE Compiled(<<"WHERE">> \o r.sql, r.c)

OrderByClauseToSql(order_by) ==
    <<"ORDER BY", order_by.column_name, order_by.direction>>

LimitClauseToSql(limit) == <<"LIMIT", ToString(limit)>>

OffsetClauseToSql(offset) == <<"OFFSET", ToString(offset)>>

(***************************************************************************)
(* sql.py: SelectQueryBuilder and JoinBuilder.  Every operation yields     *)
(* [out, b]: what the call returned or raised, and the builder afterwards. *)
(***************************************************************************)
NoBuilder == [cls |-> "none"]

Outcome(out, b) == [out |-> out, b |-> b]

TableNotFound(table_name) ==
    <<"Table '", table_name, "' not found in schema registry">>

\* the first table of the list the registry does not know, as an Optional
RECURSIVE FirstUnknownTable(_, _)
FirstUnknownTable(registry, tables) ==
    IF Len(tables) = 0 THEN None
    ELSE IF ~table_exists(registry, TableName(Head(tables)))
         THEN Some(TableName(Head(tables)))
         ELSE FirstUnknownTable(registry, Tail(tables))

SelectInit(tables, sql_dialect, registry) ==
    IF Len(tables) = 0
    THEN Outcome(Raised("__init__", "AssertionError", <<"At least one table required">>),
                 NoBuilder)
    ELSE LET self == [cls |-> "Select",
                      tables |-> tables,
                      sql_dialect |-> sql_dialect,
                      registry |-> registry,
                      join_clauses |-> <<>>,
                      where_clause |-> None,
                      order_by_clauses |-> <<>>,
                      limit_clause |-> None,
                      offset_clause |-> None,
                      _compiler |-> NewConditionCompiler(sql_dialect)]
             unknown == IF registry = None THEN None
                        ELSE FirstUnknownTable(registry[1], tables)
         IN IF unknown # None
            THEN Outcome(Raised("__init__", "ValueError", TableNotFound(unknown[1])),
                         NoBuilder)
            ELSE Outcome(Returned("__init__", NoStatement), self)

JoinTypes == {"INNER", "LEFT", "RIGHT", "FULL"}

\* a faulty join(): the join enters the clause list before on() is called
SelectJoinRecords(self, table, join_type) ==
    IF join_type \notin JoinTypes
    THEN [out |-> Raised("join", "AssertionError", <<"Invalid join type: ", join_type>>),
          b |-> self, jb |-> None]
    ELSE [out |-> Returned("join", NoStatement),
          b |-> [self EXCEPT !.join_clauses = Append(@, JoinClause(join_type, table, None))],
          jb |-> Some([table |-> table, join_type |-> join_type])]

\* SelectQueryBuilder.join: the JoinBuilder returned, as an Optional
SelectJoin(self, table, join_type) ==
    IF join_type \notin JoinTypes
    THEN [out |-> Raised("join", "AssertionError", <<"Invalid join type: ", join_type>>),
          b |-> self, jb |-> None]
    ELSE [out |-> Returned("join", NoStatement),
          b |-> self,
          jb |-> Some([table |-> table, join_type |-> join_type])]

\* JoinBuilder.on, parent the SelectQueryBuilder the JoinBuilder was made by
JoinBuilderOn(jb, parent, condition) ==
    Outcome(ReturnedSelf,
            [parent EXCEPT !.join_clauses =
                Append(@, JoinClause(jb.join_type, jb.table, Some(condition)))])

\* a faulty where(): the condition is ANDed to the WHERE clause already set
SelectWhereAccumulates(self, condition) ==
    Outcome(ReturnedSelf,
            [self EXCEPT !.where_clause =
                IF @ = None THEN Some(condition) ELSE Some(CondAnd(@[1], condition))])

SelectWhere(self, condition) ==
    Outcome(ReturnedSelf,
            [self EXCEPT !.where_clause = Some(condition)])

SelectOrderBy(self, column_name, direction) ==
    IF column_name = ""
    THEN Outcome(Raised("order_by", "AssertionError", <<"Column name cannot be empty">>),
                 self)
    ELSE IF direction \notin {"ASC", "DESC"}
    THEN Outcome(Raised("order_by", "AssertionError",
                        <<"Invalid direction: ", direction>>), self)
    ELSE Outcome(ReturnedSelf,
                 [self EXCEPT !.order_by_clauses =
                     Append(@, OrderByClause(column_name, direction))])

\* a faulty limit(): the number is stored unchecked
SelectLimitUnchecked(self, limit) ==
    Outcome(Returned("limit", NoStatement),
            [self EXCEPT !.limit_clause = Some(limit)])

SelectLimit(self, limit) ==
    IF ~(limit > 0)
    THEN Outcome(Raised("limit", "AssertionError", <<"LIMIT must be positive">>), self)
    ELSE Outcome(Returned("limit", NoStatement),
                 [self EXCEPT !.limit_clause = Some(limit)])

SelectOffset(self, offset) ==
    IF ~(offset >= 0)
    THEN Outcome(Raised("offset", "AssertionError", <<"OFFSET must be non-negative">>),
                 self)
    ELSE Outcome(Returned("offset", NoStatement),
                 [self EXCEPT !.offset_clause = Some(offset)])

\* _validate_condition of SelectQueryBuilder: the column name the ValueError
\* raised names, as an Optional
RECURSIVE SelectValidateCondition(_, _)
RECURSIVE SelectValidateConditions(_, _)

SelectColumnFound(self, column_name) ==
    \E i \in DOMAIN self.tables :
        column_exists(self.registry[1], TableName(self.tables[i]), column_name)

\* a faulty _validate_condition: of a compound condition only the simple
\* conditions directly under it are looked up
SelectValidateConditionShallow(self, condition) ==
    IF IsColumnCondition(condition)
    THEN IF SelectColumnFound(self, condition.column_name)
         THEN None
         ELSE Some(condition.column_name)
    ELSE LET simple == SelectSeq(condition.conditions, IsColumnCondition)
             unknown == SelectSeq(simple,
                                  LAMBDA c : ~SelectColumnFound(self, c.column_name))
         IN IF Len(unknown) = 0 THEN None ELSE Some(unknown[1].column_name)

SelectValidateCondition(self, condition) ==
    IF IsColumnCondition(condition)
    THEN IF SelectColumnFound(self, condition.column_name)
         THEN None
         ELSE Some(condition.column_name)
    ELSE SelectValidateConditions(self, condition.conditions)

SelectValidateConditions(self, conds) ==
    IF Len(conds) = 0 THEN None
    ELSE LET r == SelectValidateCondition(self, Head(conds))
         IN IF r # None THEN r ELSE SelectValidateConditions(self, Tail(conds))

\* the ON conditions of the join clauses, in order
JoinConditions(join_clauses) ==
    LET withOn == SelectSeq(join_clauses, LAMBDA j : j.on_condition # None)
    IN [i \in DOMAIN withOn |-> withOn[i].on_condition[1]]

\* the first ORDER BY column found in no selected table, as an Optional
RECURSIVE FirstUnknownOrderBy(_, _)
FirstUnknownOrderBy(self, order_bys) ==
    IF Len(order_bys) = 0 THEN None
    ELSE IF ~SelectColumnFound(self, Head(order_bys).column_name)
         THEN Some(Head(order_bys).column_name)
         ELSE FirstUnknownOrderBy(self, Tail(order_bys))

\* _validate_if_registry: [exc, msg], exc = "" when nothing is raised
SelectValidateIfRegistry(self) ==
    IF self.registry = None THEN [exc |-> "", msg |-> <<>>]
    ELSE LET w == IF self.where_clause # None
                  THEN SelectValidateCondition(self, self.where_clause[1])
                  ELSE None
             j == SelectValidateConditions(self, JoinConditions(self.join_clauses))
             o == FirstUnknownOrderBy(self, self.order_by_clauses)
         IN IF w # None
            THEN [exc |-> "ValueError",
                  msg |-> <<"Column '", w[1], "' not found in selected tables">>]
            ELSE IF j # None
            THEN [exc |-> "ValueError",
                  msg |-> <<"Column '", j[1], "' not found in selected tables">>]
            ELSE IF o # None
            THEN [exc |-> "ValueError",
                  msg |-> <<"Column '", o[1], "' not found in any selected table">>]
            ELSE [exc |-> "", msg |-> <<>>]

\* the loop of build() over join_clauses
RECURSIVE CompileJoins(_, _, _)
CompileJoins(c, joins, parts) ==
    IF Len(joins) = 0
    THEN [exc |-> "", msg |-> <<>>, parts |-> parts, c |-> c]
    ELSE LET r == JoinClauseToSql(Head(joins), c)
         IN IF r.exc # ""
            THEN [exc |-> r.exc, msg |-> r.msg, parts |-> parts, c |-> r.c]
            ELSE CompileJoins(r.c, Tail(joins), Append(parts, r.sql))

\* a faulty build(): the ORDER BY lines are put before the WHERE line
SelectBuildWhereLate(self, j, w) ==
    IF w.exc # ""
    THEN Outcome(Raised("build", w.exc, w.msg), [self EXCEPT !._compiler = w.c])
    ELSE Outcome(Returned("build",
                          SQLStatement(
                              JoinTokens(
                                  j.parts
                                    \o [i \in DOMAIN self.order_by_clauses |->
                                           OrderByClauseToSql(self.order_by_clauses[i])]
                                    \o (IF self.where_clause # None THEN <<w.sql>> ELSE <<>>)
                                    \o (IF self.limit_clause # None
                                        THEN <<LimitClauseToSql(self.limit_clause[1])>>
                                        ELSE <<>>)
                                    \o (IF self.offset_clause # None
                                        THEN <<OffsetClauseToSql(self.offset_clause[1])>>
                                        ELSE <<>>),
                                  "\n"),
                              w.c.parameters)),
                 [self EXCEPT !._compiler = w.c])

\* build() from the WHERE clause on: j is the outcome of the loop over the join
\* clauses, w the outcome of compiling the WHERE clause
SelectBuildWhere(self, j, w) ==
    IF w.exc # ""
    THEN Outcome(Raised("build", w.exc, w.msg), [self EXCEPT !._compiler = w.c])
    ELSE Outcome(Returned("build",
                          SQLStatement(
                              JoinTokens(
                                  j.parts
                                    \o (IF self.where_clause # None THEN <<w.sql>> ELSE <<>>)
                                    \o [i \in DOMAIN self.order_by_clauses |->
                                           OrderByClauseToSql(self.order_by_clauses[i])]
                                    \o (IF self.limit_clause # None
                                        THEN <<LimitClauseToSql(self.limit_clause[1])>>
                                        ELSE <<>>)
                                    \o (IF self.offset_clause # None
                                        THEN <<OffsetClauseToSql(self.offset_clause[1])>>
                                        ELSE <<>>),
                                  "\n"),
                              w.c.parameters)),
                 [self EXCEPT !._compiler = w.c])

\* build() from the join clauses on: j is the outcome of the loop over them
SelectBuildJoins(self, j) ==
    IF j.exc # ""
    THEN Outcome(Raised("build", j.exc, j.msg), [self EXCEPT !._compiler = j.c])
    ELSE SelectBuildWhere(self, j,
                          IF self.where_clause # None
                          THEN WhereClauseToSql(self.where_clause[1], j.c)
                          ELSE Compiled(<<>>, j.c))

SelectBuild(self) ==
    LET v == SelectValidateIfRegistry(self)
    IN IF v.exc # ""
       THEN Outcome(Raised("build", v.exc, v.msg), self)
       ELSE SelectBuildJoins(self,
                             CompileJoins(self._compiler, self.join_clauses,
                                          <<SelectClauseToSql(self.tables)>>))

(***************************************************************************)
(* Python dicts keep insertion order: a dict is a sequence of [k, v] items *)
(* with distinct keys.                                                     *)
(***************************************************************************)
Item(k, v) == [k |-> k, v |-> v]

DictKeys(d) == [i \in DOMAIN d |-> d[i].k]

DictKeySet(d) == {d[i].k : i \in DOMAIN d}

DictGet(d, k) == d[CHOOSE i \in DOMAIN d : d[i].k = k].v

\* d[k] = v
DictSet(d, k, v) ==
    IF k \in DictKeySet(d)
    THEN [i \in DOMAIN d |-> IF d[i].k = k THEN Item(k, v) ELSE d[i]]
    ELSE Append(d, Item(k, v))

\* d.update(other)
RECURSIVE DictUpdate(_, _)
DictUpdate(d, other) ==
    IF Len(other) = 0 THEN d
    ELSE DictUpdate(DictSet(d, Head(other).k, Head(other).v), Tail(other))

PyDict(items) == [ty |-> "dict", items |-> items]
PyModel(items) == [ty |-> "model", items |-> items]
PyObject == [ty |-> "object", items |-> <<>>]

ColumnNotInTable(col_name, table_name) ==
    <<"Column '", col_name, "' not found in table '", table_name, "'">>

\* the first name of the list that is no column of the table, as an Optional
RECURSIVE FirstUnknownColumn(_, _, _)
FirstUnknownColumn(registry, table_name, names) ==
    IF Len(names) = 0 THEN None
    ELSE IF ~column_exists(registry, table_name, Head(names))
         THEN Some(Head(names))
         ELSE FirstUnknownColumn(registry, table_name, Tail(names))

\* a faulty _validate_condition: a compound condition is let through unlooked at
ValidateConditionShallow(registry, condition, table_name) ==
    IF IsColumnCondition(condition)
    THEN IF column_exists(registry, table_name, condition.column_name)
         THEN None
         ELSE Some(condition.column_name)
    ELSE None

\* _validate_condition of UpdateQueryBuilder and DeleteQueryBuilder: the column
\* name the ValueError raised names, as an Optional
RECURSIVE ValidateCondition(_, _, _)
RECURSIVE ValidateConditions(_, _, _)

ValidateCondition(registry, condition, table_name) ==
    IF IsColumnCondition(condition)
    THEN IF column_exists(registry, table_name, condition.column_name)
         THEN None
         ELSE Some(condition.column_name)
    ELSE ValidateConditions(registry, condition.conditions, table_name)

ValidateConditions(registry, conds, table_name) ==
    IF Len(conds) = 0 THEN None
    ELSE LET r == ValidateCondition(registry, Head(conds), table_name)
         IN IF r # None THEN r
            ELSE ValidateConditions(registry, Tail(conds), table_name)

\* a faulty __init__: the table is not looked up in the registry
MutationInitUnchecked(self, table, registry) ==
    Outcome(Returned("__init__", NoStatement), self)

\* __init__ of the Insert, Update and Delete builders
MutationInit(self, table, registry) ==
    IF registry # None /\ ~table_exists(registry[1], TableName(table))
    THEN Outcome(Raised("__init__", "ValueError", TableNotFound(TableName(table))),
                 NoBuilder)
    ELSE Outcome(Returned("__init__", NoStatement), self)

(***************************************************************************)
(* sql.py: InsertQueryBuilder.                                             *)
(***************************************************************************)
InsertInit(table, sql_dialect, registry) ==
    MutationInit([cls |-> "Insert",
                  table |-> table,
                  sql_dialect |-> sql_dialect,
                  registry |-> registry,
                  _values |-> <<>>,
                  _compiler |-> NewConditionCompiler(sql_dialect)],
                 table, registry)

\* values(*rows): the rows before the first bad one are appended
RECURSIVE InsertValues(_, _)
InsertValues(self, rows) ==
    IF Len(rows) = 0 THEN Outcome(ReturnedSelf, self)
    ELSE LET row == Head(rows)
         IN IF row.ty \notin {"dict", "model"}
            THEN Outcome(Raised("values", "TypeError",
                                <<"Expected dict or Pydantic model, got ", row.ty>>), self)
            ELSE IF Len(row.items) = 0
            THEN Outcome(Raised("values", "AssertionError", <<"Row cannot be empty">>),
                         self)
            ELSE InsertValues([self EXCEPT !._values = Append(@, row.items)], Tail(rows))

\* the loops of InsertQueryBuilder.build over rows and columns
RECURSIVE InsertRows(_, _, _, _, _)
InsertRows(c, rows, columns, value_rows, parameters) ==
    IF Len(rows) = 0
    THEN [c |-> c, value_rows |-> value_rows, parameters |-> parameters]
    ELSE LET r == NextPlaceholders(c, Len(columns))
             row == Head(rows)
         IN InsertRows(r.c, Tail(rows), columns,
                       Append(value_rows,
                              <<"(">> \o JoinTokens(Singletons(r.phs), ",") \o <<")">>),
                       parameters \o [i \in DOMAIN columns |-> DictGet(row, columns[i])])

\* a faulty build(): the rows' column lists are compared, not their column sets
InsertBuildComparesOrder(self) ==
    IF Len(self._values) = 0
    THEN Outcome(Raised("build", "AssertionError", <<"No values to insert">>), self)
    ELSE
    LET columns == DictKeys(self._values[1])
        table_name == TableName(self.table)
        unknown == IF self.registry = None THEN None
                   ELSE FirstUnknownColumn(self.registry[1], table_name, columns)
    IN IF \E i \in DOMAIN self._values :
              DictKeys(self._values[i]) # DictKeys(self._values[1])
       THEN Outcome(Raised("build", "AssertionError",
                           <<"All rows must have same columns">>), self)
       ELSE IF unknown # None
       THEN Outcome(Raised("build", "ValueError",
                           ColumnNotInTable(unknown[1], table_name)), self)
       ELSE LET r == InsertRows(self._compiler, self._values, columns, <<>>, <<>>)
                sql == <<"INSERT INTO", table_name, "(">>
                         \o JoinTokens(Singletons(columns), ",")
                         \o <<")", "\n", "VALUES">>
                         \o JoinTokens(r.value_rows, ",")
            IN Outcome(Returned("build", SQLStatement(sql, r.parameters)),
                       [self EXCEPT !._compiler = r.c])

InsertBuild(self) ==
    IF Len(self._values) = 0
    THEN Outcome(Raised("build", "AssertionError", <<"No values to insert">>), self)
    ELSE
    LET columns == DictKeys(self._values[1])
        table_name == TableName(self.table)
        unknown == IF self.registry = None THEN None
                   ELSE FirstUnknownColumn(self.registry[1], table_name, columns)
    IN IF \E i \in DOMAIN self._values :
              DictKeySet(self._values[i]) # DictKeySet(self._values[1])
       THEN Outcome(Raised("build", "AssertionError",
                           <<"All rows must have same columns">>), self)
       ELSE IF unknown # None
       THEN Outcome(Raised("build", "ValueError",
                           ColumnNotInTable(unknown[1], table_name)), self)
       ELSE LET r == InsertRows(self._compiler, self._values, columns, <<>>, <<>>)
                sql == <<"INSERT INTO", table_name, "(">>
                         \o JoinTokens(Singletons(columns), ",")
                         \o <<")", "\n", "VALUES">>
                         \o JoinTokens(r.value_rows, ",")
            IN Outcome(Returned("build", SQLStatement(sql, r.parameters)),
                       [self EXCEPT !._compiler = r.c])

(***************************************************************************)
(* sql.py: UpdateQueryBuilder.                                             *)
(***************************************************************************)
UpdateInit(table, sql_dialect, registry) ==
    MutationInit([cls |-> "Update",
                  table |-> table,
                  sql_dialect |-> sql_dialect,
                  registry |-> registry,
                  _set_values |-> <<>>,
                  where_clause |-> None,
                  _compiler |-> NewConditionCompiler(sql_dialect)],
                 table, registry)

\* a faulty set(): the keyword arguments replace the SET map
UpdateSetReplaces(self, kwargs) ==
    IF Len(kwargs) = 0
    THEN Outcome(Raised("set", "AssertionError", <<"No columns to set">>), self)
    ELSE Outcome(ReturnedSelf,
                 [self EXCEPT !._set_values = kwargs])

UpdateSet(self, kwargs) ==
    IF Len(kwargs) = 0
    THEN Outcome(Raised("set", "AssertionError", <<"No columns to set">>), self)
    ELSE Outcome(ReturnedSelf,
                 [self EXCEPT !._set_values = DictUpdate(@, kwargs)])

UpdateWhere(self, condition) ==
    Outcome(ReturnedSelf,
            [self EXCEPT !.where_clause = Some(condition)])

\* a faulty build(): the SET map is not checked to be non-empty
UpdateBuildUnguarded(self) ==
    LET table_name == TableName(self.table)
        columns == DictKeys(self._set_values)
        unknownSet == IF self.registry = None THEN None
                      ELSE FirstUnknownColumn(self.registry[1], table_name, columns)
        unknownWhere == IF self.registry = None \/ self.where_clause = None THEN None
                        ELSE ValidateCondition(self.registry[1], self.where_clause[1],
                                               table_name)
    IN IF unknownSet # None
       THEN Outcome(Raised("build", "ValueError",
                           ColumnNotInTable(unknownSet[1], table_name)), self)
       ELSE IF unknownWhere # None
       THEN Outcome(Raised("build", "ValueError",
                           ColumnNotInTable(unknownWhere[1], table_name)), self)
       ELSE
       LET r == NextPlaceholders(self._compiler, Len(columns))
           set_parts == [i \in DOMAIN columns |-> <<columns[i], "=", r.phs[i]>>]
           parameters == [i \in DOMAIN columns |-> self._set_values[i].v]
           sql == <<"UPDATE", table_name, "\n", "SET">> \o JoinTokens(set_parts, ",")
       IN IF self.where_clause = None
          THEN Outcome(Returned("build", SQLStatement(sql, parameters)),
                       [self EXCEPT !._compiler = r.c])
          ELSE LET w == WhereClauseToSql(self.where_clause[1], r.c)
               IN IF w.exc # ""
                  THEN Outcome(Raised("build", w.exc, w.msg),
                               [self EXCEPT !._compiler = w.c])
                  ELSE Outcome(Returned("build",
                                        SQLStatement(sql \o <<"\n">> \o w.sql,
                                                     parameters \o w.c.parameters)),
                               [self EXCEPT !._compiler = w.c])

UpdateBuild(self) ==
    IF Len(self._set_values) = 0
    THEN Outcome(Raised("build", "AssertionError", <<"No columns to update">>), self)
    ELSE
    LET table_name == TableName(self.table)
        columns == DictKeys(self._set_values)
        unknownSet == IF self.registry = None THEN None
                      ELSE FirstUnknownColumn(self.registry[1], table_name, columns)
        unknownWhere == IF self.registry = None \/ self.where_clause = None THEN None
                        ELSE ValidateCondition(self.registry[1], self.where_clause[1],
                                               table_name)
    IN IF unknownSet # None
       THEN Outcome(Raised("build", "ValueError",
                           ColumnNotInTable(unknownSet[1], table_name)), self)
       ELSE IF unknownWhere # None
       THEN Outcome(Raised("build", "ValueError",
                           ColumnNotInTable(unknownWhere[1], table_name)), self)
       ELSE
       LET r == NextPlaceholders(self._compiler, Len(columns))
           set_parts == [i \in DOMAIN columns |-> <<columns[i], "=", r.phs[i]>>]
           parameters == [i \in DOMAIN columns |-> self._set_values[i].v]
           sql == <<"UPDATE", table_name, "\n", "SET">> \o JoinTokens(set_parts, ",")
       IN IF self.where_clause = None
          THEN Outcome(Returned("build", SQLStatement(sql, parameters)),
                       [self EXCEPT !._compiler = r.c])
          ELSE LET w == WhereClauseToSql(self.where_clause[1], r.c)
               IN IF w.exc # ""
                  THEN Outcome(Raised("build", w.exc, w.msg),
                               [self EXCEPT !._compiler = w.c])
                  ELSE Outcome(Returned("build",
                                        SQLStatement(sql \o <<"\n">> \o w.sql,
                                                     parameters \o w.c.parameters)),
                               [self EXCEPT !._compiler = w.c])

(***************************************************************************)
(* sql.py: DeleteQueryBuilder.                                             *)
(***************************************************************************)
DeleteInit(table, sql_dialect, registry) ==
    MutationInit([cls |-> "Delete",
                  table |-> table,
                  sql_dialect |-> sql_dialect,
                  registry |-> registry,
                  where_clause |-> None,
                  _compiler |-> NewConditionCompiler(sql_dialect)],
                 table, registry)

DeleteWhere(self, condition) ==
    Outcome(ReturnedSelf,
            [self EXCEPT !.where_clause = Some(condition)])

\* build() once the WHERE clause is known to be set and valid, compiling with c
DeleteRender(self, c) ==
    LET w == WhereClauseToSql(self.where_clause[1], c)
    IN IF w.exc # ""
       THEN Outcome(Raised("build", w.exc, w.msg), [self EXCEPT !._compiler = w.c])
       ELSE Outcome(Returned("build",
                             SQLStatement(<<"DELETE FROM", TableName(self.table), "\n">>
                                            \o w.sql,
                                          w.c.parameters)),
                    [self EXCEPT !._compiler = w.c])

\* the ValueError build() raises when the registry rejects the WHERE clause
DeleteValidate(self) ==
    LET table_name == TableName(self.table)
        unknown == IF self.registry = None THEN None
                   ELSE ValidateCondition(self.registry[1], self.where_clause[1],
                                          table_name)
    IN IF unknown # None
       THEN Some(Raised("build", "ValueError", ColumnNotInTable(unknown[1], table_name)))
       ELSE None

\* a faulty build(): without the safety assertion it renders an unrestricted DELETE
DeleteBuildUnguarded(self) ==
    IF self.where_clause = None
    THEN Outcome(Returned("build",
                          SQLStatement(<<"DELETE FROM", TableName(self.table)>>,
                                       self._compiler.parameters)),
                 self)
    ELSE IF DeleteValidate(self) # None
    THEN Outcome(DeleteValidate(self)[1], self)
    ELSE DeleteRender(self, self._compiler)

\* a faulty build(): with a registry, the WHERE condition is validated by
\* compiling it once before the statement is rendered
DeleteBuildValidatesByCompiling(self) ==
    IF self.where_clause = None
    THEN Outcome(Raised("build", "AssertionError",
                        <<"DELETE requires WHERE clause (safety: no unrestricted deletes)">>),
                 self)
    ELSE IF DeleteValidate(self) # None
    THEN Outcome(DeleteValidate(self)[1], self)
    ELSE IF self.registry # None
    THEN DeleteRender(self, Compile(self._compiler, self.where_clause[1]).c)
    ELSE DeleteRender(self, self._compiler)

DeleteBuild(self) ==
    IF self.where_clause = None
    THEN Outcome(Raised("build", "AssertionError",
                        <<"DELETE requires WHERE clause (safety: no unrestricted deletes)">>),
                 self)
    ELSE IF DeleteValidate(self) # None
    THEN Outcome(DeleteValidate(self)[1], self)
    ELSE DeleteRender(self, self._compiler)

(***************************************************************************)
(* The inputs the calls are made with.                                     *)
(***************************************************************************)
User == Table("user", <<Column("id", "int", TRUE), Column("email", "str", FALSE)>>)
Post == Table("post", <<Column("id", "int", TRUE), Column("title", "str", FALSE)>>)

UserRegistry == SchemaRegistry(SnapshotFromTables({User}))

\* (table, registry) pairs a builder is constructed with: User with and without
\* the registry, and Post, which the registry does not hold, with it
TableInputs == {<<User, None>>, <<User, Some(UserRegistry)>>, <<Post, Some(UserRegistry)>>}

\* the tables argument of SelectQueryBuilder: the same, and the empty list
TableListInputs == {<<<<t[1]>>, t[2]>> : t \in TableInputs} \cup {<<<<>>, None>>}

UserId == ColumnRef("id", "int")
UserEmail == ColumnRef("email", "str")
Ghost == ColumnRef("ghost", "int")

CondA == RefEq(UserId, PyInt(1))
CondB == RefLike(UserEmail, PyStr(2))
CondN == RefIsNull(UserEmail)
CondNN == RefIsNotNull(UserEmail)
CondIn == RefIn(UserId, PyList(<<3, 4>>))
CondBadIn == RefIn(UserId, PyTuple(<<3, 4>>))
\* an IN condition whose list is empty when it is compiled: in_ keeps the
\* caller's list itself, which the caller emptied after in_ returned
CondEmptyIn == ColumnCondition("id", "IN", PyList(<<>>), "int")
CondG == RefEq(Ghost, PyInt(5))
CondJ == RefGt(UserId, PyInt(7))

\* A AND (id IN <tuple>): compiling it raises after A was compiled
CondBad == CondAnd(CondA, CondBadIn)
\* A OR (B AND ghost = 5): the unknown column sits two levels down
CondGhostDeep == CondOr(CondA, CondAnd(CondB, CondG))

WhereConds == {CondA, CondBad, CondGhostDeep}
OnConds == {CondJ, CondG}
JoinTypeInputs == {"LEFT"}
OrderByInputs == {<<"email", "ASC">>, <<"ghost", "DESC">>}
LimitInputs == {-1, 0, 1}
OffsetInputs == {-1, 0}
RowInputs == {PyDict(<<Item("id", PyInt(1)), Item("email", PyStr(2))>>),
              PyDict(<<Item("email", PyStr(3)), Item("id", PyInt(4))>>),
              PyDict(<<Item("id", PyInt(5)), Item("ghost", PyInt(6))>>),
              PyDict(<<>>),
              PyObject}
SetInputs == {<<>>,
              <<Item("email", PyStr(1))>>,
              <<Item("id", PyInt(2)), Item("email", PyStr(3))>>,
              <<Item("ghost", PyInt(4))>>}

(***************************************************************************)
(* types.py: conditions as objects.  A CompoundCondition holds a reference *)
(* to a list object, and & and | make new objects from their operands.     *)
(* An object's identity is its index in the heap.                          *)
(***************************************************************************)
ConditionObject(condition) == [kind |-> "ColumnCondition", condition |-> condition]
ListObject(items) == [kind |-> "list", items |-> items]
CompoundObject(conditions, operator) ==
    [kind |-> "CompoundCondition", conditions |-> conditions, operator |-> operator]

\* the column conditions that exist from the start, as objects 1, 2 and 3
LeafObjects == <<ConditionObject(CondA), ConditionObject(CondB), ConditionObject(CondN)>>

ConditionIds(h) ==
    {id \in DOMAIN h : h[id].kind \in {"ColumnCondition", "CompoundCondition"}}

\* CompoundCondition(conditions, operator), the list object being new as well
NewCompound(h, items, operator) ==
    LET list == Len(h) + 1
    IN [h |-> h \o <<ListObject(items), CompoundObject(list, operator)>>,
        id |-> list + 1]

\* a faulty __and__ / __or__: the flattening case appends to the operand's own
\* list and hands that list to the new node
ComposeObjectsInPlace(h, self, other, operator) ==
    IF /\ h[self].kind = "CompoundCondition"
       /\ h[self].operator = operator
       /\ h[other].kind = "ColumnCondition"
    THEN LET list == h[self].conditions
         IN [h |-> Append([h EXCEPT ![list].items = Append(@, other)],
                          CompoundObject(list, operator)),
             id |-> Len(h) + 1]
    ELSE NewCompound(h, <<self, other>>, operator)

\* self & other (operator "AND") and self | other (operator "OR") on objects:
\* the heap afterwards and the identity of the result
ComposeObjects(h, self, other, operator) ==
    IF /\ h[self].kind = "CompoundCondition"
       /\ h[self].operator = operator
       /\ h[other].kind = "ColumnCondition"
    THEN NewCompound(h, h[h[self].conditions].items \o <<other>>, operator)
    ELSE NewCompound(h, <<self, other>>, operator)

(***************************************************************************)
(* Declared columns and tables with all their fields (types.py, table.py). *)
(* A python type is its name; NoType is python_type None; default_factory  *)
(* is an Optional callable.                                                *)
(***************************************************************************)
NoType == "None"

PyDecimal(n) == [ty |-> "Decimal", items |-> <<n>>]

\* what a call gives: the exception raised ("" when it returns) and the value
Result(exc, value) == [exc |-> exc, value |-> value]

\* the fields of a Column instance
ColumnFields(python_type, primary_key, unique, nullable, default, default_factory) ==
    [python_type |-> python_type, primary_key |-> primary_key, unique |-> unique,
     nullable |-> nullable, default |-> default, default_factory |-> default_factory]

\* the fields of a TableMetadata instance
TableMetadataFields(name, columns, primary_key) ==
    [name |-> name, columns |-> columns, primary_key |-> primary_key]

(***************************************************************************)
(* The schema snapshot and its JSON document (snapshot.py).                *)
(***************************************************************************)
ColumnSnapshot(name, python_type, primary_key, unique, nullable, default, default_factory) ==
    [name |-> name, python_type |-> python_type, primary_key |-> primary_key,
     unique |-> unique, nullable |-> nullable, default |-> default,
     default_factory |-> default_factory]

SchemaSnapshot(tables) == [tables |-> tables, version |-> "1.0"]

NoSnapshot == [tables |-> <<>>, version |-> ""]

\* python_type.__module__
TypeModule(python_type) ==
    CASE python_type \in {"int", "str", "bool", "float", "bytes"} -> "builtins"
      [] python_type = "UUID" -> "uuid"
      [] python_type = "datetime" -> "datetime"
      [] python_type = "Decimal" -> "decimal"
      [] OTHER -> "types"

\* a union such as int | None is a types.UnionType object: it has no __qualname__
HasQualname(python_type) ==
    python_type \in {"int", "str", "bool", "float", "bytes", "UUID", "datetime", "Decimal"}

TypeName(python_type) == TypeModule(python_type) \o "." \o python_type

ColumnSnapshots(columns_dict) ==
    [i \in DOMAIN columns_dict |->
        LET col_name == columns_dict[i].k
            col == columns_dict[i].v
        IN Item(col_name,
                ColumnSnapshot(col_name, TypeName(col.python_type), col.primary_key,
                               col.unique, col.nullable, col.default,
                               col.default_factory # None))]

RECURSIVE SnapshotTables(_, _)
SnapshotTables(tables, table_classes) ==
    IF Len(table_classes) = 0 THEN tables
    ELSE LET table_class == Head(table_classes)
         IN SnapshotTables(DictSet(tables, table_class.name,
                                   TableSnapshot(table_class.name,
                                                 ColumnSnapshots(table_class.columns),
                                                 table_class.primary_key)),
                           Tail(table_classes))

from_tables(table_classes) ==
    IF Len(table_classes) = 0 THEN Result("AssertionError", NoSnapshot)
    ELSE IF \E t \in DOMAIN table_classes :
               \E i \in DOMAIN table_classes[t].columns :
                  table_classes[t].columns[i].v.python_type = NoType
         THEN Result("AssertionError", NoSnapshot)
    ELSE IF \E t \in DOMAIN table_classes :
               \E i \in DOMAIN table_classes[t].columns :
                  ~HasQualname(table_classes[t].columns[i].v.python_type)
         THEN Result("AttributeError", NoSnapshot)
    ELSE Result("", SchemaSnapshot(SnapshotTables(<<>>, table_classes)))

\* JSON values: null, number, string and array
JsonNull == [js |-> "null", items |-> <<>>]

\* what json.dumps writes for one Python value, as an Optional: None when the
\* encoder has no encoding for the value's type and raises TypeError
JsonDumps(o) ==
    CASE o.ty = "NoneType" -> Some(JsonNull)
      [] o.ty = "int" -> Some([js |-> "number", items |-> o.items])
      [] o.ty = "str" -> Some([js |-> "string", items |-> o.items])
      [] o.ty \in {"list", "tuple"} -> Some([js |-> "array", items |-> o.items])
      [] OTHER -> None

\* what json.loads reads from one JSON value
JsonLoads(j) ==
    CASE j.js = "null" -> PyNone
      [] j.js = "number" -> [ty |-> "int", items |-> j.items]
      [] j.js = "string" -> [ty |-> "str", items |-> j.items]
      [] j.js = "array" -> PyList(j.items)

NoDocument == [tables |-> <<>>, version |-> ""]

\* a column of the document; its default is written only when it can be
ColumnDocument(col) ==
    [name |-> col.name, python_type |-> col.python_type, primary_key |-> col.primary_key,
     unique |-> col.unique, nullable |-> col.nullable,
     default |-> IF JsonDumps(col.default) = None THEN JsonNull
                 ELSE JsonDumps(col.default)[1],
     default_factory |-> col.default_factory]

TableDocument(table) ==
    [name |-> table.name,
     columns |-> [i \in DOMAIN table.columns |->
                     Item(table.columns[i].k, ColumnDocument(table.columns[i].v))],
     primary_key |-> IF table.primary_key = None THEN JsonNull
                     ELSE [js |-> "string", items |-> table.primary_key]]

\* json.dumps(asdict(self)): TypeError when a default has no JSON encoding
to_json(self) ==
    IF \E t \in DOMAIN self.tables :
          \E i \in DOMAIN self.tables[t].v.columns :
             JsonDumps(self.tables[t].v.columns[i].v.default) = None
    THEN Result("TypeError", NoDocument)
    ELSE Result("", [tables |-> [t \in DOMAIN self.tables |->
                                    Item(self.tables[t].k, TableDocument(self.tables[t].v))],
                     version |-> self.version])

ColumnFromDocument(col_data) ==
    ColumnSnapshot(col_data.name, col_data.python_type, col_data.primary_key,
                   col_data.unique, col_data.nullable, JsonLoads(col_data.default),
                   col_data.default_factory)

TableFromDocument(table_data) ==
    TableSnapshot(table_data.name,
                  [i \in DOMAIN table_data.columns |->
                      Item(table_data.columns[i].k,
                           ColumnFromDocument(table_data.columns[i].v))],
                  IF table_data.primary_key.js = "null" THEN None
                  ELSE table_data.primary_key.items)

from_json(data) ==
    IF data.version # "1.0" THEN Result("AssertionError", NoSnapshot)
    ELSE Result("", SchemaSnapshot([t \in DOMAIN data.tables |->
                                       Item(data.tables[t].k,
                                            TableFromDocument(data.tables[t].v))]))

\* declared tables: after Table.__init_subclass__ a class holds its metadata
Author ==
    TableMetadataFields("author",
        <<Item("id", ColumnFields("int", TRUE, FALSE, FALSE, PyNone, None)),
          Item("email", ColumnFields("str", FALSE, TRUE, FALSE, PyNone, None)),
          Item("bio", ColumnFields("str", FALSE, FALSE, TRUE, PyStr(1), None)),
          Item("visits", ColumnFields("int", FALSE, FALSE, FALSE, PyNone, Some("factory")))>>,
        Some("id"))

Invoice ==
    TableMetadataFields("invoice",
        <<Item("id", ColumnFields("int", TRUE, FALSE, FALSE, PyNone, None)),
          Item("total", ColumnFields("Decimal", FALSE, FALSE, FALSE, PyDecimal(2), None))>>,
        Some("id"))

Tag ==
    TableMetadataFields("tag",
        <<Item("label", ColumnFields("str", FALSE, FALSE, FALSE, PyTuple(<<3, 4>>), None))>>,
        None)

Log ==
    TableMetadataFields("log",
        <<Item("line", ColumnFields("int", FALSE, FALSE, FALSE, PyInt(0), None)),
          Item("at", ColumnFields("datetime", FALSE, FALSE, TRUE, PyNone, None))>>,
        None)

DeclaredTables == {Author, Invoice, Tag, Log}

\* the arguments of from_tables: no, one or two table classes
TableArguments ==
    {<<>>} \cup {<<t>> : t \in DeclaredTables}
           \cup {<<t, u>> : t \in DeclaredTables, u \in DeclaredTables}

(***************************************************************************)
(* The queries of a SchemaRegistry as calls (snapshot.py): each gives the  *)
(* Result of the call and the registry as the call leaves it.              *)
(***************************************************************************)
TableNotInSchema(table_name) == <<"Table '", table_name, "' not found in schema">>

GetTable(self, table_name) ==
    IF ~table_exists(self, table_name)
    THEN Outcome(Result("KeyError", TableNotInSchema(table_name)), self)
    ELSE Outcome(Result("", get_table(self, table_name)), self)

TableExists(self, table_name) ==
    Outcome(Result("", table_exists(self, table_name)), self)

\* a faulty column_exists: get_table is called for a table never looked up
ColumnExistsUnguarded(self, table_name, column_name) ==
    LET table == GetTable(self, table_name)
    IN IF table.out.exc # "" THEN table
       ELSE Outcome(Result("", column_name \in table.out.value.columns), table.b)

ColumnExists(self, table_name, column_name) ==
    IF ~TableExists(self, table_name).out.value
    THEN Outcome(Result("", FALSE), self)
    ELSE LET table == GetTable(self, table_name)
         IN IF table.out.exc # "" THEN table
            ELSE Outcome(Result("", column_name \in table.out.value.columns), table.b)

GetColumn(self, table_name, column_name) ==
    LET table == GetTable(self, table_name)
    IN IF table.out.exc # "" THEN table
       ELSE IF column_name \notin table.out.value.columns
            THEN Outcome(Result("KeyError", ColumnNotInTable(column_name, table_name)),
                         table.b)
       ELSE Outcome(Result("", column_name), table.b)

GetPrimaryKey(self, table_name) ==
    LET table == GetTable(self, table_name)
    IN IF table.out.exc # "" THEN table
       ELSE Outcome(Result("", table.out.value.primary_key), table.b)

Queries == {"table_exists", "column_exists", "get_table", "get_column", "get_primary_key"}

Query(self, query, table_name, column_name) ==
    CASE query = "table_exists" -> TableExists(self, table_name)
      [] query = "column_exists" -> ColumnExists(self, table_name, column_name)
      [] query = "get_table" -> GetTable(self, table_name)
      [] query = "get_column" -> GetColumn(self, table_name, column_name)
      [] query = "get_primary_key" -> GetPrimaryKey(self, table_name)

\* the registries queried, and the names asked for
RegistryInputs ==
    {UserRegistry, SchemaRegistry(SnapshotFromTables({User, Post}))}

TableNameInputs == {"user", "post", "ghost"}

ColumnNameInputs == {"id", "email", "title", "ghost"}

(***************************************************************************)
(* The type adapters (types.py) and the live validator's comparison of     *)
(* database type names (schema.py).  A database type name is a sequence of *)
(* tokens: "VARCHAR(255)" is <<"VARCHAR", "(", "255", ")">>.               *)
(***************************************************************************)
SupportedTypes == {"int", "str", "bool", "float", "bytes", "UUID", "datetime", "Decimal"}

is_supported(adapter, python_type) == python_type \in SupportedTypes

PostgreSQLTypeMap(python_type) ==
    CASE python_type = "int" -> <<"INTEGER">>
      [] python_type = "str" -> <<"TEXT">>
      [] python_type = "bool" -> <<"BOOLEAN">>
      [] python_type = "float" -> <<"FLOAT8">>
      [] python_type = "bytes" -> <<"BYTEA">>
      [] python_type = "UUID" -> <<"UUID">>
      [] python_type = "datetime" -> <<"TIMESTAMP">>
      [] python_type = "Decimal" -> <<"NUMERIC">>

SQLiteTypeMap(python_type) ==
    CASE python_type = "int" -> <<"INTEGER">>
      [] python_type = "str" -> <<"TEXT">>
      [] python_type = "bool" -> <<"INTEGER">>
      [] python_type = "float" -> <<"REAL">>
      [] python_type = "bytes" -> <<"BLOB">>
      [] python_type = "UUID" -> <<"TEXT">>
      [] python_type = "datetime" -> <<"TEXT">>
      [] python_type = "Decimal" -> <<"TEXT">>

MySQLTypeMap(python_type) ==
    CASE python_type = "int" -> <<"INT">>
      [] python_type = "str" -> <<"VARCHAR", "(", "255", ")">>
      [] python_type = "bool" -> <<"BOOLEAN">>
      [] python_type = "float" -> <<"FLOAT">>
      [] python_type = "bytes" -> <<"LONGBLOB">>
      [] python_type = "UUID" -> <<"CHAR", "(", "36", ")">>
      [] python_type = "datetime" -> <<"DATETIME">>
      [] python_type = "Decimal" -> <<"DECIMAL">>

\* the adapter of a dialect names a type, or raises ValueError for a type not
\* in its map
python_to_db(adapter, python_type) ==
    IF ~is_supported(adapter, python_type) THEN Result("ValueError", <<>>)
    ELSE Result("", CASE adapter = "postgresql" -> PostgreSQLTypeMap(python_type)
                      [] adapter = "sqlite" -> SQLiteTypeMap(python_type)
                      [] adapter = "mysql" -> MySQLTypeMap(python_type))

\* str.upper() of one token
Upper(token) ==
    CASE token = "integer" -> "INTEGER"
      [] token = "int" -> "INT"
      [] token = "bigint" -> "BIGINT"
      [] token = "text" -> "TEXT"
      [] token = "varchar" -> "VARCHAR"
      [] token = "char" -> "CHAR"
      [] token = "real" -> "REAL"
      [] token = "Decimal" -> "DECIMAL"
      [] token = "numeric" -> "NUMERIC"
      [] OTHER -> token

\* name.split("(")[0].upper(): the tokens before the first parenthesis
TypeBase(name) ==
    LET parens == {i \in DOMAIN name : name[i] = "("}
        first == IF parens = {} THEN Len(name) + 1
                 ELSE CHOOSE i \in parens : \A j \in parens : i <= j
    IN [i \in 1..(first - 1) |-> Upper(name[i])]

AliasKeys == {"INTEGER", "INT", "TEXT", "VARCHAR", "FLOAT", "NUMERIC", "DECIMAL"}

aliases ==
    [key \in AliasKeys |->
        CASE key = "INTEGER" -> {"INT", "BIGINT", "SMALLINT"}
          [] key = "INT" -> {"INTEGER", "BIGINT", "SMALLINT"}
          [] key = "TEXT" -> {"VARCHAR", "CHAR", "LONGTEXT"}
          [] key = "VARCHAR" -> {"TEXT", "CHAR"}
          [] key = "FLOAT" -> {"DOUBLE", "REAL"}
          [] key = "NUMERIC" -> {"DECIMAL"}
          [] key = "DECIMAL" -> {"NUMERIC"}]

types_compatible(expected, actual) ==
    LET expected_base == TypeBase(expected)
        actual_base == TypeBase(actual)
    IN IF expected_base = actual_base THEN TRUE
       ELSE IF Len(expected_base) = 1 /\ expected_base[1] \in AliasKeys
            THEN /\ Len(actual_base) = 1
                 /\ actual_base[1] \in aliases[expected_base[1]]
       ELSE FALSE

\* the type names compared: the names of the alias table and of the adapters,
\* some with a length, some in lower case
TypeNameInputs ==
    {<<"INTEGER">>, <<"INT">>, <<"BIGINT">>, <<"SMALLINT">>, <<"integer">>,
     <<"TEXT">>, <<"VARCHAR">>, <<"VARCHAR", "(", "255", ")">>, <<"varchar", "(", "64", ")">>,
     <<"CHAR">>, <<"CHAR", "(", "36", ")">>, <<"LONGTEXT">>,
     <<"FLOAT">>, <<"DOUBLE">>, <<"REAL">>, <<"FLOAT8">>,
     <<"NUMERIC">>, <<"numeric", "(", "10", ")">>, <<"DECIMAL">>, <<"Decimal">>,
     <<"BOOLEAN">>, <<"BLOB">>, <<"UUID">>}

(***************************************************************************)
(* The live validator (schema.py): the columns a database reports for a    *)
(* table are compared with the declared ones.                              *)
(***************************************************************************)
ColumnInfo(name, db_type, nullable, is_primary_key) ==
    [name |-> name, db_type |-> db_type, nullable |-> nullable,
     is_primary_key |-> is_primary_key]

\* what an exception of the validator says: the kind of mismatch, the table and
\* the column it names, the expected and the actual value, and for unexpected
\* columns their names
Mismatch(kind, table, column, expected, actual, unexpected) ==
    [kind |-> kind, table |-> table, column |-> column, expected |-> expected,
     actual |-> actual, unexpected |-> unexpected]

NoMismatch == Mismatch("", "", "", <<>>, <<>>, {})

KeyWords(primary_key) == IF primary_key THEN <<"primary key">> ELSE <<"regular column">>

NullWords(nullable) == IF nullable THEN <<"NULL">> ELSE <<"NOT NULL">>

\* a faulty _validate_column: nullability is compared for primary keys too
ValidateColumnChecksKeys(adapter, table_name, col_name, expected, actual) ==
    LET expected_db_type == python_to_db(adapter, expected.python_type)
    IN IF expected_db_type.exc # ""
       THEN Result("ValueError", Mismatch("unsupported", "", "", <<>>, <<>>, {}))
       ELSE IF ~types_compatible(expected_db_type.value, actual.db_type)
            THEN Result("AssertionError",
                        Mismatch("type", table_name, col_name, expected_db_type.value,
                                 actual.db_type, {}))
       ELSE IF expected.primary_key # actual.is_primary_key
            THEN Result("AssertionError",
                        Mismatch("primary key", table_name, col_name,
                                 KeyWords(expected.primary_key),
                                 KeyWords(actual.is_primary_key), {}))
       ELSE IF expected.nullable # actual.nullable
            THEN Result("AssertionError",
                        Mismatch("nullable", table_name, col_name,
                                 NullWords(expected.nullable), NullWords(actual.nullable),
                                 {}))
       ELSE Result("", NoMismatch)

ValidateColumn(adapter, table_name, col_name, expected, actual) ==
    LET expected_db_type == python_to_db(adapter, expected.python_type)
    IN IF expected_db_type.exc # ""
       THEN Result("ValueError", Mismatch("unsupported", "", "", <<>>, <<>>, {}))
       ELSE IF ~types_compatible(expected_db_type.value, actual.db_type)
            THEN Result("AssertionError",
                        Mismatch("type", table_name, col_name, expected_db_type.value,
                                 actual.db_type, {}))
       ELSE IF expected.primary_key # actual.is_primary_key
            THEN Result("AssertionError",
                        Mismatch("primary key", table_name, col_name,
                                 KeyWords(expected.primary_key),
                                 KeyWords(actual.is_primary_key), {}))
       ELSE IF ~expected.primary_key /\ expected.nullable # actual.nullable
            THEN Result("AssertionError",
                        Mismatch("nullable", table_name, col_name,
                                 NullWords(expected.nullable), NullWords(actual.nullable),
                                 {}))
       ELSE Result("", NoMismatch)

\* the loop of _validate_table over the declared columns, in their order
RECURSIVE ValidateColumns(_, _, _, _)
ValidateColumns(adapter, table_name, expected_columns, actual_columns) ==
    IF Len(expected_columns) = 0 THEN Result("", NoMismatch)
    ELSE LET col_name == Head(expected_columns).k
             col == Head(expected_columns).v
         IN IF col_name \notin DictKeySet(actual_columns)
            THEN Result("AssertionError",
                        Mismatch("not found", table_name, col_name, <<>>, <<>>, {}))
            ELSE LET checked == ValidateColumn(adapter, table_name, col_name, col,
                                               DictGet(actual_columns, col_name))
                 IN IF checked.exc # "" THEN checked
                    ELSE ValidateColumns(adapter, table_name, Tail(expected_columns),
                                         actual_columns)

\* _validate_table once the database has answered
ValidateTable(adapter, table, actual_columns) ==
    LET checked == ValidateColumns(adapter, table.name, table.columns, actual_columns)
        unexpected == DictKeySet(actual_columns) \ DictKeySet(table.columns)
    IN IF checked.exc # "" THEN checked
       ELSE IF unexpected # {}
            THEN Result("AssertionError",
                        Mismatch("unexpected", table.name, "", <<>>, <<>>, unexpected))
       ELSE Result("", NoMismatch)

\* one validate_schema call: the dialect of the pool, the tables given, the
\* index of the table at work, where the call stands, the columns the
\* database reported for each table asked about, the queries issued, and the
\* exception raised with what it says
Validation(db_type, tables, pos, stage, answers, queries, exc, msg) ==
    [db_type |-> db_type, tables |-> tables, pos |-> pos, stage |-> stage,
     answers |-> answers, queries |-> queries, exc |-> exc, msg |-> msg]

NoValidation == Validation("", <<>>, 0, "none", <<>>, <<>>, "", NoMismatch)

\* the query _get_db_columns issues for a table
IntrospectionQuery(db_type, table_name) == [db_type |-> db_type, table_name |-> table_name]

\* validate_schema up to its first await
ValidateSchemaCalled(db_type, tables) ==
    IF Len(tables) = 0
    THEN Validation(db_type, tables, 0, "raised", <<>>, <<>>, "AssertionError",
                    Mismatch("no tables", "", "", <<>>, <<>>, {}))
    ELSE Validation(db_type, tables, 1, "querying", <<>>, <<>>, "", NoMismatch)

\* _get_db_columns: one query for the table at work, answered with its columns
GetDbColumns(self, actual_columns) ==
    [self EXCEPT !.stage = "comparing",
                 !.queries = Append(@, IntrospectionQuery(self.db_type,
                                                          self.tables[self.pos].name)),
                 !.answers = Append(@, actual_columns)]

\* the rest of _validate_table and the step of the loop of validate_schema
TableValidated(self) ==
    LET checked == ValidateTable(self.db_type, self.tables[self.pos],
                                 self.answers[Len(self.answers)])
    IN IF checked.exc # ""
       THEN [self EXCEPT !.stage = "raised", !.exc = checked.exc, !.msg = checked.value]
       ELSE IF self.pos < Len(self.tables)
            THEN [self EXCEPT !.pos = @ + 1, !.stage = "querying"]
       ELSE [self EXCEPT !.stage = "returned"]

\* the type a union such as int | None is checked as
UnionBase(python_type) ==
    CASE python_type = "int | None" -> "int"
      [] python_type = "str | None" -> "str"
      [] python_type = "complex | None" -> "complex"
      [] OTHER -> python_type

\* a declared table with a column of a union type
Person ==
    TableMetadataFields("person",
        <<Item("id", ColumnFields("int", TRUE, FALSE, FALSE, PyNone, None)),
          Item("age", ColumnFields("int | None", FALSE, FALSE, TRUE, PyNone, None))>>,
        Some("id"))

ValidatedTables == {Invoice, Log, Person}

\* the arguments of validate_schema: no, one or two table classes
ValidateArguments ==
    {<<>>} \cup {<<t>> : t \in ValidatedTables}
           \cup {<<t, u>> : t \in ValidatedTables, u \in ValidatedTables}

\* the columns of a database that was created from the declaration
DeclaredLive(db_type, table) ==
    [i \in DOMAIN table.columns |->
        LET col == table.columns[i].v
        IN Item(table.columns[i].k,
                ColumnInfo(table.columns[i].k,
                           python_to_db(db_type, UnionBase(col.python_type)).value,
                           col.nullable, col.primary_key))]

\* the columns of a database that differs from another in one respect: a
\* column dropped, a column added, a key or a NULL constraint changed, or a
\* column of another type
Drifted(columns) ==
    {columns}
    \cup {SelectSeq(columns, LAMBDA item : item.k # columns[i].k) : i \in DOMAIN columns}
    \cup {Append(columns, Item("extra", ColumnInfo("extra", <<"TEXT">>, TRUE, FALSE)))}
    \cup {[columns EXCEPT ![i].v.is_primary_key = ~@] : i \in DOMAIN columns}
    \cup {[columns EXCEPT ![i].v.nullable = ~@] : i \in DOMAIN columns}
    \cup {[columns EXCEPT ![i].v.db_type = db_type] :
             i \in DOMAIN columns, db_type \in {<<"BIGINT">>, <<"BLOB">>}}

\* what a database may report for a table: its declaration, drifted in up to
\* two respects, or no column at all when it has no such table
LiveColumnInputs(db_type, table) ==
    {<<>>} \cup UNION {Drifted(columns) : columns \in Drifted(DeclaredLive(db_type, table))}

(***************************************************************************)
(* The construction of a Column (types.py) and of a TableMetadata          *)
(* (table.py): the dataclass takes the fields given and __post_init__      *)
(* validates them.                                                         *)
(***************************************************************************)
Adapters == <<"postgresql", "sqlite", "mysql">>

\* Column._validate_type: the first adapter without the type raises
ColumnValidateType(self) ==
    LET type_to_check == UnionBase(self.python_type)
        lacking == {a \in DOMAIN Adapters : ~is_supported(Adapters[a], type_to_check)}
    IN IF lacking # {}
       THEN Result("ValueError",
                   <<"Type ", self.python_type, " is not supported by ",
                     Adapters[CHOOSE a \in lacking : \A b \in lacking : a <= b]>>)
       ELSE Result("", <<>>)

\* Column.__post_init__
ColumnPostInit(self) ==
    IF self.default.ty # "NoneType" /\ self.default_factory # None
    THEN Result("ValueError", <<"Cannot specify both 'default' and 'default_factory'">>)
    ELSE IF self.primary_key /\ self.nullable
         THEN Result("ValueError", <<"Primary key cannot be nullable">>)
    ELSE IF self.python_type # NoType THEN ColumnValidateType(self)
    ELSE Result("", <<>>)

\* TableMetadata.__post_init__: the exception raised and the instance as it is left
TableMetadataPostInit(self) ==
    IF self.name = "" THEN Outcome(Result("AssertionError", <<"Table name cannot be empty">>), self)
    ELSE IF Len(self.columns) = 0
         THEN Outcome(Result("AssertionError", <<"Table must have at least one column">>),
                      self)
    ELSE LET pk_columns == SelectSeq(self.columns, LAMBDA item : item.v.primary_key)
         IN IF Len(pk_columns) > 1
            THEN Outcome(Result("AssertionError",
                                <<"Table can have at most one primary key, found ",
                                  Len(pk_columns)>>),
                         self)
            ELSE IF Len(pk_columns) > 0
                 THEN Outcome(Result("", <<>>),
                              [self EXCEPT !.primary_key = Some(pk_columns[1].k)])
            ELSE Outcome(Result("", <<>>), self)

\* the types, defaults and default factories a Column is constructed with
PythonTypeInputs ==
    SupportedTypes \cup {NoType, "int | None", "str | None", "complex | None", "list", "complex"}

DefaultInputs == {PyNone, PyInt(0), PyStr(1)}

DefaultFactoryInputs == {None, Some("factory")}

\* the columns a TableMetadata is constructed with: up to two of three names,
\* each flagged primary key or not
ColumnNamed(name, primary_key) ==
    Item(name, ColumnFields(IF name = "name" THEN "str" ELSE "int", primary_key, FALSE,
                            FALSE, PyNone, None))

MetadataColumnNames == {"id", "id2", "name"}

MetadataColumnInputs ==
    {<<>>}
    \cup {<<ColumnNamed(n, pk)>> : n \in MetadataColumnNames, pk \in BOOLEAN}
    \cup {<<ColumnNamed(pair[1], pk1), ColumnNamed(pair[2], pk2)>> :
             pair \in {q \in MetadataColumnNames \X MetadataColumnNames : q[1] # q[2]},
             pk1 \in BOOLEAN, pk2 \in BOOLEAN}

(***************************************************************************)
(* Table name derivation (table.py).  A class name is a sequence of        *)
(* characters; str.isupper, str.islower and str.lower are given on the     *)
(* ASCII letters, and every other character is neither upper nor lower     *)
(* case and is its own lowercase.                                          *)
(***************************************************************************)
MaxName == 3

UppercaseLetters ==
    <<"A", "B", "C", "D", "E", "F", "G", "H", "I", "J", "K", "L", "M",
      "N", "O", "P", "Q", "R", "S", "T", "U", "V", "W", "X", "Y", "Z">>

LowercaseLetters ==
    <<"a", "b", "c", "d", "e", "f", "g", "h", "i", "j", "k", "l", "m",
      "n", "o", "p", "q", "r", "s", "t", "u", "v", "w", "x", "y", "z">>

isupper(char) == \E k \in DOMAIN UppercaseLetters : UppercaseLetters[k] = char

islower(char) == \E k \in DOMAIN LowercaseLetters : LowercaseLetters[k] = char

lower(char) ==
    IF isupper(char)
    THEN LowercaseLetters[CHOOSE k \in DOMAIN UppercaseLetters : UppercaseLetters[k] = char]
    ELSE char

\* The loop of the faulty variant: only the previous character is looked at.
RECURSIVE ClassNameLoopPreviousOnly(_, _, _)
ClassNameLoopPreviousOnly(class_name, i, result) ==
    IF i > Len(class_name) THEN result
    ELSE LET char == class_name[i]
             separated == isupper(char) /\ i > 1 /\ islower(class_name[i - 1])
         IN ClassNameLoopPreviousOnly(class_name, i + 1,
                (IF separated THEN Append(result, "_") ELSE result) \o <<lower(char)>>)

\* The loop over enumerate(class_name); i counts from 1 here, from 0 there.
RECURSIVE ClassNameLoop(_, _, _)
ClassNameLoop(class_name, i, result) ==
    IF i > Len(class_name) THEN result
    ELSE LET char == class_name[i]
             separated ==
                 /\ isupper(char)
                 /\ i > 1
                 /\ \/ islower(class_name[i - 1])
                    \/ (i + 1 <= Len(class_name) /\ islower(class_name[i + 1]))
         IN ClassNameLoop(class_name, i + 1,
                (IF separated THEN Append(result, "_") ELSE result) \o <<lower(char)>>)

\* A faulty variant: no separator inside a run of capitals (HTTPServer).
_class_name_to_table_namePreviousOnly(class_name) ==
    ClassNameLoopPreviousOnly(class_name, 1, <<>>)

_class_name_to_table_name(class_name) == ClassNameLoop(class_name, 1, <<>>)

NameAlphabet == {"A", "B", "a", "b", "2", "_"}

NamedExamples ==
    { <<"U", "s", "e", "r">>,
      <<"U", "s", "e", "r", "P", "r", "o", "f", "i", "l", "e">>,
      <<"H", "T", "T", "P", "S", "e", "r", "v", "e", "r">>,
      <<"U", "R", "L", "P", "a", "t", "h">>,
      <<"U", "R", "L", "R", "o", "u", "t", "e", "r">> }

ClassNameInputs ==
    NamedExamples \cup UNION {[1..n -> NameAlphabet] : n \in 0..MaxName}

Derivation(class_name, table_name) ==
    [class_name |-> class_name, table_name |-> table_name]

(***************************************************************************)
(* sql.py: several builder instances at once.  An instance is its place in *)
(* the sequence of objects; __init__ gives every instance lists, a dict    *)
(* and a ConditionCompiler of its own, and every method reads and writes   *)
(* its own self only.                                                      *)
(***************************************************************************)
MaxCalls == 3

BuilderClasses == {"Select", "Insert", "Update", "Delete"}

Method(name, k) == [name |-> name, k |-> k]

MethodConds == <<CondA, CondIn>>

MethodRows == <<PyDict(<<Item("id", PyInt(1)), Item("email", PyStr(2))>>)>>

MethodSets == <<<<Item("email", PyStr(6))>>>>

MethodsOf(cls) ==
    {Method("build", 0)}
      \cup (IF cls = "Insert" THEN {Method("values", k) : k \in DOMAIN MethodRows}
            ELSE {Method("where", k) : k \in DOMAIN MethodConds})
      \cup (IF cls = "Select" THEN {Method("order_by", 0)} ELSE {})
      \cup (IF cls = "Update" THEN {Method("set", k) : k \in DOMAIN MethodSets} ELSE {})

\* cls(User, sql_dialect): the constructors of the four builders
Construct(cls, sql_dialect) ==
    CASE cls = "Select" -> SelectInit(<<User>>, sql_dialect, None)
      [] cls = "Insert" -> InsertInit(User, sql_dialect, None)
      [] cls = "Update" -> UpdateInit(User, sql_dialect, None)
      [] cls = "Delete" -> DeleteInit(User, sql_dialect, None)

\* self.method(...): one call on one builder
Invoke(self, method) ==
    CASE method.name = "build" ->
            (CASE self.cls = "Select" -> SelectBuild(self)
               [] self.cls = "Insert" -> InsertBuild(self)
               [] self.cls = "Update" -> UpdateBuild(self)
               [] self.cls = "Delete" -> DeleteBuild(self))
      [] method.name = "where" ->
            (CASE self.cls = "Select" -> SelectWhere(self, MethodConds[method.k])
               [] self.cls = "Update" -> UpdateWhere(self, MethodConds[method.k])
               [] self.cls = "Delete" -> DeleteWhere(self, MethodConds[method.k]))
      [] method.name = "order_by" -> SelectOrderBy(self, "email", "ASC")
      [] method.name = "values" -> InsertValues(self, <<MethodRows[method.k]>>)
      [] method.name = "set" -> UpdateSet(self, MethodSets[method.k])

\* A faulty variant: the compiler is one object all the instances hold.
InvokeOnSharedCompiler(objects, who, method) ==
    LET r == Invoke(objects[who], method)
    IN [out |-> r.out,
        objects |-> [i \in DOMAIN objects |->
                        IF i = who THEN r.b
                        ELSE [objects[i] EXCEPT !._compiler = r.b._compiler]]]

\* objects[who].method(...): the call changes the instance it is made on
InvokeOn(objects, who, method) ==
    LET r == Invoke(objects[who], method)
    IN [out |-> r.out, objects |-> [objects EXCEPT ![who] = r.b]]

Instance(cls, sql_dialect, calls, outs) ==
    [cls |-> cls, sql_dialect |-> sql_dialect, calls |-> calls, outs |-> outs]

(***************************************************************************)
(* executor.py: ExecutableQuery.  first(), all() and count() build a       *)
(* statement from self.builder and hand it to the pool; each yields the    *)
(* statement sent (an Optional, empty when build() raised), what build()   *)
(* returned or raised, and the builder afterwards.                         *)
(***************************************************************************)
Sent(method, fetch, out, b) ==
    [method |-> method, fetch |-> fetch, out |-> out, b |-> b]

\* str.replace(old, new, 1) on a text of tokens, old being two tokens long
RECURSIVE ReplaceFirst(_, _, _)
ReplaceFirst(text, old, new) ==
    IF Len(text) < 2 THEN text
    ELSE IF <<text[1], text[2]>> = old
         THEN new \o SubSeq(text, 3, Len(text))
         ELSE <<text[1]>> \o ReplaceFirst(Tail(text), old, new)

ExecutableFirst(builder_) ==
    LET limited == SelectLimit(builder_, 1)
        built == SelectBuild(limited.b)
    IN Sent("first", "fetch_one", built.out, built.b)

ExecutableAll(builder_) ==
    LET built == SelectBuild(builder_)
    IN Sent("all", "fetch_all", built.out, built.b)

ExecutableCount(builder_) ==
    LET built == SelectBuild(builder_)
        count_sql == ReplaceFirst(built.out.stmt.text, <<"SELECT", "*">>,
                                  <<"SELECT", "COUNT(*)", "as", "count">>)
    IN Sent("count", "fetch_one",
            IF built.out.exc # "" THEN built.out
            ELSE Returned("build", SQLStatement(count_sql, built.out.stmt.parameters)),
            built.b)

Execute(builder_, method) ==
    CASE method = "first" -> ExecutableFirst(builder_)
      [] method = "all" -> ExecutableAll(builder_)
      [] method = "count" -> ExecutableCount(builder_)

(***************************************************************************)
(* A comparison whose right-hand side is itself a column handle:           *)
(* ColumnRef.__eq__ stores whatever it is given as the condition's value,  *)
(* here the ColumnRef of User.id.                                          *)
(***************************************************************************)
PostUserId == ColumnRef("user_id", "int")

CondColumns == RefEq(PostUserId, UserId)

OnColumnConds == {CondColumns, CondJ}

(***************************************************************************)
(* pool.py: AsyncPool.transaction() and AsyncPool.execute().  A postgresql *)
(* pool hands out up to max_size driver connections; a sqlite or mysql     *)
(* pool holds the single connection 1.  log is what the database was sent, *)
(* in order, each entry with the connection it came over; the database     *)
(* accepts every statement.                                                *)
(***************************************************************************)
MaxSize == 2

DbTypes == {"postgresql", "sqlite", "mysql"}

LogEntry(conn, sql) == [conn |-> conn, sql |-> sql]

AsyncPool(db_type, max_size) ==
    [db_type |-> db_type,
     max_size |-> max_size,
     idle |-> IF db_type = "postgresql" THEN 1..max_size ELSE {},
     log |-> <<>>,
     pc |-> "connected",
     held |-> 0,
     released |-> <<>>,
     executed |-> <<>>,
     body |-> "",
     raised |-> ""]

\* _get_connection up to its yield: the connections it can yield
GetConnection(self) ==
    IF self.db_type = "postgresql" THEN self.idle ELSE {1}

\* leaving _get_connection: the finally clause of the postgresql branch
Release(self, conn) ==
    IF self.db_type = "postgresql"
    THEN [self EXCEPT !.idle = @ \cup {conn}, !.released = Append(@, conn)]
    ELSE self

\* PostgreSQLConnection.execute, SQLiteConnection.execute, MySQLConnection.execute
ConnectionExecute(self, conn, sql) ==
    IF self.db_type = "postgresql"
    THEN [self EXCEPT !.log = Append(@, LogEntry(conn, sql))]
    ELSE [self EXCEPT !.log = @ \o <<LogEntry(conn, sql), LogEntry(conn, "commit()")>>]

\* AsyncPool.execute(stmt), conn being the connection _get_connection yields
PoolExecute(self, conn, sql) ==
    LET acquired == [self EXCEPT !.idle = @ \ {conn}]
    IN Release(ConnectionExecute(acquired, conn, sql), conn)

\* transaction() up to its yield
TransactionEnter(self, conn) ==
    LET acquired == [self EXCEPT !.idle = @ \ {conn}, !.held = conn, !.pc = "body"]
    IN IF self.db_type = "postgresql"
       THEN [acquired EXCEPT !.log = Append(@, LogEntry(conn, "BEGIN"))]
       ELSE acquired

\* transaction() after its yield, outcome being how the body ended: "" when
\* it finished, else the class of the exception it raised
TransactionExit(self, outcome) ==
    LET ended == [self EXCEPT !.body = IF outcome = "" THEN "finished" ELSE outcome,
                              !.raised = outcome,
                              !.pc = "done"]
        finished ==
            IF self.db_type # "postgresql" THEN ended
            ELSE IF outcome = ""
            THEN [ended EXCEPT !.log = Append(@, LogEntry(self.held, "COMMIT"))]
            ELSE IF outcome = "Exception"
            THEN [ended EXCEPT !.log = Append(@, LogEntry(self.held, "ROLLBACK"))]
            ELSE ended
    IN Release(finished, self.held)

(***************************************************************************)
(* The database: the statements of a log that are durable.  A statement    *)
(* sent over a postgresql connection outside BEGIN ... COMMIT is committed *)
(* on its own; inside, and on a sqlite or mysql connection, it waits for   *)
(* the COMMIT or commit() on its connection and is dropped by a ROLLBACK.  *)
(***************************************************************************)
RECURSIVE Durable(_, _, _, _)
Durable(db_type, log, open, done) ==
    IF Len(log) = 0 THEN done
    ELSE LET conn == Head(log).conn
             sql == Head(log).sql
             pending == {e \in open : e.conn = conn}
         IN IF sql = "BEGIN"
            THEN Durable(db_type, Tail(log), open \cup {LogEntry(conn, "BEGIN")}, done)
            ELSE IF sql \in {"COMMIT", "commit()"}
            THEN Durable(db_type, Tail(log), open \ pending,
                         done \cup ({e.sql : e \in pending} \ {"BEGIN"}))
            ELSE IF sql = "ROLLBACK"
            THEN Durable(db_type, Tail(log), open \ pending, done)
            ELSE IF db_type = "postgresql" /\ pending = {}
            THEN Durable(db_type, Tail(log), open, done \cup {sql})
            ELSE Durable(db_type, Tail(log), open \cup {LogEntry(conn, sql)}, done)

Committed(self) == Durable(self.db_type, self.log, {}, {})

Statements == {"INSERT INTO user (id) VALUES (1)", "DELETE FROM user WHERE id = 2"}

BodyExceptions == {"Exception", "CancelledError"}

(***************************************************************************)
(* A registry holding both declared tables, and conditions on a column of  *)
(* the joined table.                                                       *)
(***************************************************************************)
BothRegistry == SchemaRegistry(SnapshotFromTables({User, Post}))

PostTitle == ColumnRef("title", "str")

CondTitle == RefEq(PostTitle, PyStr(8))

JoinedConds == {CondJ, CondTitle, CondOr(CondA, CondTitle)}

JoinedOrderByInputs == {"email", "title"}

(***************************************************************************)
(* table.py: declaring a Table subclass.  __init_subclass__ derives the    *)
(* table name from the class name and builds the TableMetadata that        *)
(* from_tables reads.                                                      *)
(***************************************************************************)
\* "".join(result)
RECURSIVE JoinChars(_)
JoinChars(chars) ==
    IF Len(chars) = 0 THEN "" ELSE Head(chars) \o JoinChars(Tail(chars))

\* Table.__init_subclass__, for a class that declares columns
InitSubclass(class_name, columns) ==
    TableMetadataPostInit(
        TableMetadataFields(JoinChars(_class_name_to_table_name(class_name)),
                            columns, None)).b

DeclaredClassNames ==
    { <<"U", "s", "e", "r">>, <<"P", "o", "s", "t">>,
      <<"H", "T", "T", "P", "S", "e", "r", "v", "e", "r">>,
      <<"H", "t", "t", "p", "S", "e", "r", "v", "e", "r">>,
      <<"A", "B">>, <<"A", "b">> }

DeclaredColumnInputs ==
    { <<ColumnNamed("id", TRUE), ColumnNamed("name", FALSE)>>,
      <<ColumnNamed("key", TRUE)>> }

Declaration(class_name, columns) == [class_name |-> class_name, columns |-> columns]

\* one or two class statements, no two with the same class name
Declarations ==
    LET One == {Declaration(n, c) : n \in DeclaredClassNames, c \in DeclaredColumnInputs}
    IN {<<d>> : d \in One}
         \cup {pair \in One \X One : pair[1].class_name # pair[2].class_name}

(***************************************************************************)
(* The state machine: one builder is constructed and then called.          *)
(***************************************************************************)
Init ==
    /\ builder = NoBuilder
    /\ joinBuilders = {}
    /\ cc = None
    /\ compiled = <<>>
    /\ last = Returned("none", NoStatement)
    /\ onCalls = <<>>
    /\ wheres = <<>>
    /\ builds = <<>>
    /\ sets = <<>>
    /\ composed = <<>>
    /\ heap = LeafObjects
    /\ trips = <<>>
    /\ reg = None
    /\ asked = <<>>
    /\ compat = None
    /\ validation = NoValidation
    /\ made = None
    /\ meta = None
    /\ named = <<>>
    /\ instances = <<>>
    /\ executable = <<>>
    /\ pool = <<>>
    /\ subclasses = <<>>

\* a call that leaves the histories and the JoinBuilders alone
Call(r) ==
    /\ builder' = r.b
    /\ last' = r.out
    /\ UNCHANGED <<joinBuilders, cc, compiled, onCalls, wheres, builds, sets,
                   composed, typeVars>>

Live(cls) == builder.cls = cls /\ Len(builds) < MaxBuilds

NewSelectQueryBuilder ==
    \E t \in TableListInputs, d \in Dialects :
        /\ builder = NoBuilder
        /\ Call(SelectInit(t[1], d, t[2]))

NewInsertQueryBuilder ==
    \E t \in TableInputs, d \in Dialects :
        /\ builder = NoBuilder
        /\ Call(InsertInit(t[1], d, t[2]))

NewUpdateQueryBuilder ==
    \E t \in TableInputs, d \in Dialects :
        /\ builder = NoBuilder
        /\ Call(UpdateInit(t[1], d, t[2]))

NewDeleteQueryBuilder ==
    \E t \in TableInputs, d \in Dialects :
        /\ builder = NoBuilder
        /\ Call(DeleteInit(t[1], d, t[2]))

CallJoin ==
    \E table \in {Post}, join_type \in JoinTypeInputs :
        /\ Live("Select")
        /\ LET r == SelectJoin(builder, table, join_type)
           IN /\ builder' = r.b
              /\ last' = r.out
              /\ joinBuilders' = joinBuilders \cup {r.jb[i] : i \in DOMAIN r.jb}
        /\ UNCHANGED <<cc, compiled, onCalls, wheres, builds, sets, composed, typeVars>>

CallOn ==
    \E jb \in joinBuilders, condition \in OnConds :
        /\ Live("Select")
        /\ Len(builder.join_clauses) + Len(builder.order_by_clauses) < MaxClauses
        /\ LET r == JoinBuilderOn(jb, builder, condition)
           IN /\ builder' = r.b
              /\ last' = r.out
        /\ onCalls' = Append(onCalls, JoinClause(jb.join_type, jb.table, Some(condition)))
        /\ UNCHANGED <<joinBuilders, cc, compiled, wheres, builds, sets, composed,
                       typeVars>>

CallWhere ==
    \E condition \in WhereConds :
        /\ builder.cls \in {"Select", "Update", "Delete"}
        /\ Len(builds) < MaxBuilds
        /\ LET r == IF builder.cls = "Select" THEN SelectWhere(builder, condition)
                    ELSE IF builder.cls = "Update" THEN UpdateWhere(builder, condition)
                    ELSE DeleteWhere(builder, condition)
           IN /\ builder' = r.b
              /\ last' = r.out
        /\ wheres' = IF Len(wheres) < 2 THEN Append(wheres, condition)
                      ELSE <<wheres[2], condition>>
        /\ UNCHANGED <<joinBuilders, cc, compiled, onCalls, builds, sets, composed,
                       typeVars>>

CallOrderBy ==
    \E o \in OrderByInputs :
        /\ Live("Select")
        /\ Len(builder.join_clauses) + Len(builder.order_by_clauses) < MaxClauses
        /\ Call(SelectOrderBy(builder, o[1], o[2]))

\* limit() and offset() bind no parameter and are looked up in no registry;
\* Next leaves the two calls out, which keeps its state space small, and
\* NextClauses below makes them
CallLimit ==
    \E n \in LimitInputs :
        /\ Live("Select")
        /\ Call(SelectLimit(builder, n))

CallOffset ==
    \E n \in OffsetInputs :
        /\ Live("Select")
        /\ Call(SelectOffset(builder, n))

CallValues ==
    \E row \in RowInputs :
        /\ Live("Insert")
        /\ Len(builder._values) < MaxRows
        /\ Call(InsertValues(builder, <<row>>))

CallSet ==
    \E kwargs \in SetInputs :
        /\ Live("Update")
        /\ Call(UpdateSet(builder, kwargs))

Build(self) ==
    IF self.cls = "Select" THEN SelectBuild(self)
    ELSE IF self.cls = "Insert" THEN InsertBuild(self)
    ELSE IF self.cls = "Update" THEN UpdateBuild(self)
    ELSE DeleteBuild(self)

CallBuild ==
    /\ builder # NoBuilder
    /\ Len(builds) < MaxBuilds
    /\ LET r == Build(builder)
       IN /\ builder' = r.b
          /\ last' = r.out
          /\ builds' = Append(builds, r.out.exc)
    /\ UNCHANGED <<joinBuilders, cc, compiled, onCalls, wheres, sets, composed,
                   typeVars>>

Next ==
    \/ NewSelectQueryBuilder
    \/ NewInsertQueryBuilder
    \/ NewUpdateQueryBuilder
    \/ NewDeleteQueryBuilder
    \/ CallJoin
    \/ CallOn
    \/ CallWhere
    \/ CallOrderBy
    \/ CallValues
    \/ CallSet
    \/ CallBuild

Spec == Init /\ [][Next]_vars

(***************************************************************************)
(* A SelectQueryBuilder given its clauses in any order, limit() and        *)
(* offset() among them, and then built, and built again.                   *)
(***************************************************************************)
NextClauses ==
    \/ NewSelectQueryBuilder
    \/ builds = <<>> /\ CallJoin
    \/ builds = <<>> /\ CallOn
    \/ builds = <<>> /\ CallWhere
    \/ builds = <<>> /\ CallOrderBy
    \/ builds = <<>> /\ CallLimit
    \/ builds = <<>> /\ CallOffset
    \/ CallBuild

SpecClauses == Init /\ [][NextClauses]_vars

(***************************************************************************)
(* An UpdateQueryBuilder whose set() calls are recorded with their         *)
(* arguments.                                                              *)
(***************************************************************************)
CallSetRecorded ==
    \E kwargs \in SetInputs :
        /\ builder.cls = "Update"
        /\ Len(sets) < MaxSets
        /\ LET r == UpdateSet(builder, kwargs)
           IN /\ builder' = r.b
              /\ last' = r.out
        /\ sets' = Append(sets, kwargs)
        /\ UNCHANGED <<joinBuilders, cc, compiled, onCalls, wheres, builds, composed,
                       typeVars>>

NextSet == NewUpdateQueryBuilder \/ CallSetRecorded

SpecSet == Init /\ [][NextSet]_vars

(***************************************************************************)
(* Conditions composed with & and |: each operand is a column condition or *)
(* the result of an earlier composition.                                   *)
(***************************************************************************)
ComposeLeaves == {CondA, CondB, CondN}

Composition(operator, left, right, result) ==
    [operator |-> operator, left |-> left, right |-> right, result |-> result]

Compose ==
    \E operator \in {"AND", "OR"} :
        \E left, right \in ComposeLeaves \cup {composed[i].result : i \in DOMAIN composed} :
            /\ builder = NoBuilder
            /\ cc = None
            /\ Len(composed) < MaxCompose
            /\ composed' = Append(composed,
                                  Composition(operator, left, right,
                                              IF operator = "AND"
                                              THEN CondAnd(left, right)
                                              ELSE CondOr(left, right)))
            /\ UNCHANGED <<builder, joinBuilders, cc, compiled, last, onCalls, wheres,
                           builds, sets, typeVars>>

NextCompose == Compose

SpecCompose == Init /\ [][NextCompose]_vars

(***************************************************************************)
(* Conditions composed as objects: each operand is any condition object    *)
(* there is.                                                               *)
(***************************************************************************)
ComposeOnHeap ==
    \E operator \in {"AND", "OR"} :
        \E self, other \in ConditionIds(heap) :
            /\ Cardinality({id \in DOMAIN heap : heap[id].kind = "CompoundCondition"})
                  < MaxCompounds
            /\ heap' = ComposeObjects(heap, self, other, operator).h
            /\ UNCHANGED <<sqlVars, trips, reg, asked, compat, validation, made, meta, named, instances, executable, pool, subclasses>>

NextObjects == ComposeOnHeap

SpecObjects == Init /\ [][NextObjects]_vars

(***************************************************************************)
(* A snapshot is taken from declared table classes, written with to_json   *)
(* and read back with from_json; a call that raises ends the round trip.   *)
(***************************************************************************)
NotCalled == "not called"

RoundTripOf(table_classes) ==
    LET snapshot == from_tables(table_classes)
        json == IF snapshot.exc = "" THEN to_json(snapshot.value)
                ELSE Result(NotCalled, NoDocument)
    IN [tables |-> table_classes,
        snapshot |-> snapshot,
        json |-> json,
        loaded |-> IF json.exc = "" THEN from_json(json.value)
                   ELSE Result(NotCalled, NoSnapshot)]

RoundTrip ==
    \E table_classes \in TableArguments :
        /\ Len(trips) < MaxTrips
        /\ trips' = Append(trips, RoundTripOf(table_classes))
        /\ UNCHANGED <<sqlVars, heap, reg, asked, compat, validation, made, meta, named, instances, executable, pool, subclasses>>

NextSnapshot == RoundTrip

SpecSnapshot == Init /\ [][NextSnapshot]_vars

(***************************************************************************)
(* A SchemaRegistry is constructed over a snapshot and then queried.       *)
(***************************************************************************)
NewSchemaRegistry ==
    \E registry \in RegistryInputs :
        /\ reg = None
        /\ reg' = Some(registry)
        /\ UNCHANGED <<sqlVars, heap, trips, asked, compat, validation, made, meta, named, instances, executable, pool, subclasses>>

Ask ==
    \E query \in Queries, table_name \in TableNameInputs, column_name \in ColumnNameInputs :
        /\ reg # None
        /\ Len(asked) < MaxQueries
        /\ LET call == Query(reg[1], query, table_name, column_name)
           IN /\ reg' = Some(call.b)
              /\ asked' = Append(asked, [query |-> query, table_name |-> table_name,
                                         column_name |-> column_name,
                                         result |-> call.out])
        /\ UNCHANGED <<sqlVars, heap, trips, compat, validation, made, meta, named, instances, executable, pool, subclasses>>

NextRegistry == NewSchemaRegistry \/ Ask

SpecRegistry == Init /\ [][NextRegistry]_vars

(***************************************************************************)
(* Two database type names are compared, each as the expected one in turn. *)
(***************************************************************************)
CompareTypes ==
    \E a \in TypeNameInputs, b \in TypeNameInputs :
        /\ compat' = Some([a |-> a, b |-> b,
                           ab |-> types_compatible(a, b),
                           ba |-> types_compatible(b, a)])
        /\ UNCHANGED <<sqlVars, heap, trips, reg, asked, validation, made, meta, named, instances, executable, pool, subclasses>>

NextCompat == CompareTypes

SpecCompat == Init /\ [][NextCompat]_vars

(***************************************************************************)
(* validate_schema is called on a pool of some dialect; for each table in  *)
(* turn it awaits the columns the database reports and compares them.      *)
(***************************************************************************)
CallValidateSchema ==
    \E db_type \in Dialects, tables \in ValidateArguments :
        /\ validation.stage = "none"
        /\ validation' = ValidateSchemaCalled(db_type, tables)
        /\ UNCHANGED <<sqlVars, heap, trips, reg, asked, compat, made, meta, named, instances, executable, pool, subclasses>>

Introspect ==
    /\ validation.stage = "querying"
    /\ \E actual_columns \in LiveColumnInputs(validation.db_type,
                                               validation.tables[validation.pos]) :
          validation' = GetDbColumns(validation, actual_columns)
    /\ UNCHANGED <<sqlVars, heap, trips, reg, asked, compat, made, meta, named, instances, executable, pool, subclasses>>

CompareColumns ==
    /\ validation.stage = "comparing"
    /\ validation' = TableValidated(validation)
    /\ UNCHANGED <<sqlVars, heap, trips, reg, asked, compat, made, meta, named, instances, executable, pool, subclasses>>

NextValidate == CallValidateSchema \/ Introspect \/ CompareColumns

SpecValidate == Init /\ [][NextValidate]_vars

(***************************************************************************)
(* A Column is constructed from a type, three flags, a default and a       *)
(* default factory.                                                        *)
(***************************************************************************)
NewColumn ==
    \E python_type \in PythonTypeInputs, primary_key \in BOOLEAN, unique \in BOOLEAN,
       nullable \in BOOLEAN, default \in DefaultInputs,
       default_factory \in DefaultFactoryInputs :
        LET self == ColumnFields(python_type, primary_key, unique, nullable, default,
                                 default_factory)
        IN /\ made' = Some([self |-> self, result |-> ColumnPostInit(self)])
           /\ UNCHANGED <<sqlVars, heap, trips, reg, asked, compat, validation, meta, named, instances, executable, pool, subclasses>>

NextColumn == NewColumn

SpecColumn == Init /\ [][NextColumn]_vars

(***************************************************************************)
(* A TableMetadata is constructed from a name, columns and a primary_key.  *)
(***************************************************************************)
NewTableMetadata ==
    \E name \in {"", "users"}, columns \in MetadataColumnInputs,
       primary_key \in {None, Some("id"), Some("ghost")} :
        LET given == TableMetadataFields(name, columns, primary_key)
            constructed == TableMetadataPostInit(given)
        IN /\ meta' = Some([given |-> given, result |-> constructed.out,
                            self |-> constructed.b])
           /\ UNCHANGED <<sqlVars, heap, trips, reg, asked, compat, validation, made, named, instances, executable, pool, subclasses>>

NextTableMetadata == NewTableMetadata

SpecTableMetadata == Init /\ [][NextTableMetadata]_vars

(***************************************************************************)
(* A table name is derived from a class name, and then derived once more   *)
(* from the same class name.                                               *)
(***************************************************************************)
DeriveTableName ==
    /\ named = <<>>
    /\ \E class_name \in ClassNameInputs :
          named' = <<Derivation(class_name, _class_name_to_table_name(class_name))>>
    /\ UNCHANGED <<sqlVars, heap, trips, reg, asked, compat, validation, made, meta, instances, executable, pool, subclasses>>

DeriveTableNameAgain ==
    /\ Len(named) = 1
    /\ LET class_name == named[1].class_name
       IN named' = Append(named,
                          Derivation(class_name, _class_name_to_table_name(class_name)))
    /\ UNCHANGED <<sqlVars, heap, trips, reg, asked, compat, validation, made, meta, instances, executable, pool, subclasses>>

NextNames == DeriveTableName \/ DeriveTableNameAgain

SpecNames == Init /\ [][NextNames]_vars

(***************************************************************************)
(* Two builders are constructed, and then called in any order.  instances  *)
(* keeps the objects and, for each, its class and dialect, the calls made  *)
(* on it and what each call returned.                                      *)
(***************************************************************************)
NewBuilders ==
    /\ instances = <<>>
    /\ \E clsA \in BuilderClasses, clsB \in BuilderClasses,
          dialectA \in {"postgresql", "sqlite"}, dialectB \in {"postgresql", "sqlite"} :
          instances' = <<[objects |-> <<Construct(clsA, dialectA).b,
                                        Construct(clsB, dialectB).b>>,
                          about |-> <<Instance(clsA, dialectA, <<>>, <<>>),
                                      Instance(clsB, dialectB, <<>>, <<>>)>>]>>
    /\ UNCHANGED <<sqlVars, heap, trips, reg, asked, compat, validation, made, meta, named, executable, pool, subclasses>>

CallBuilder ==
    /\ instances # <<>>
    /\ Len(instances[1].about[1].calls) + Len(instances[1].about[2].calls) < MaxCalls
    /\ \E who \in {1, 2} :
         \E method \in MethodsOf(instances[1].about[who].cls) :
            LET r == InvokeOn(instances[1].objects, who, method)
            IN instances' =
                 <<[objects |-> r.objects,
                    about |-> [instances[1].about EXCEPT
                                  ![who].calls = Append(@, method),
                                  ![who].outs = Append(@, r.out)]]>>
    /\ UNCHANGED <<sqlVars, heap, trips, reg, asked, compat, validation, made, meta, named, executable, pool, subclasses>>

NextBuilders == NewBuilders \/ CallBuilder

SpecBuilders == Init /\ [][NextBuilders]_vars

(***************************************************************************)
(* A SelectQueryBuilder is set up by the caller, wrapped by                *)
(* attach_execution, and first(), all() and count() are called on the      *)
(* ExecutableQuery in any order.                                           *)
(***************************************************************************)
AttachExecution ==
    /\ executable = <<>>
    /\ \E d \in Dialects, where \in {None, Some(CondA), Some(CondIn)},
          limit \in {None, Some(2)} :
          LET new == SelectInit(<<User>>, d, None).b
              filtered == IF where = None THEN new ELSE SelectWhere(new, where[1]).b
              limited == IF limit = None THEN filtered
                         ELSE SelectLimit(filtered, limit[1]).b
          IN executable' = <<[builder |-> limited, asSet |-> limited, sent |-> <<>>]>>
    /\ UNCHANGED <<sqlVars, heap, trips, reg, asked, compat, validation, made, meta, named,
                   instances, pool, subclasses>>

CallExecutable ==
    /\ executable # <<>>
    /\ Len(executable[1].sent) < MaxCalls
    /\ \E method \in {"first", "all", "count"} :
          LET r == Execute(executable[1].builder, method)
          IN executable' = <<[executable[1] EXCEPT
                            !.builder = r.b,
                            !.sent = Append(@, [method |-> r.method, fetch |-> r.fetch,
                                                out |-> r.out])]>>
    /\ UNCHANGED <<sqlVars, heap, trips, reg, asked, compat, validation, made, meta, named,
                   instances, pool, subclasses>>

NextExecute == AttachExecution \/ CallExecutable

SpecExecute == Init /\ [][NextExecute]_vars

(***************************************************************************)
(* A SelectQueryBuilder joined on a comparison of two columns:             *)
(* join(Post).on(Post.user_id == User.id), then build().                   *)
(***************************************************************************)
CallOnColumns ==
    \E jb \in joinBuilders, condition \in OnColumnConds :
        /\ Live("Select")
        /\ Len(builder.join_clauses) < MaxClauses
        /\ LET r == JoinBuilderOn(jb, builder, condition)
           IN /\ builder' = r.b
              /\ last' = r.out
        /\ onCalls' = Append(onCalls, JoinClause(jb.join_type, jb.table, Some(condition)))
        /\ UNCHANGED <<joinBuilders, cc, compiled, wheres, builds, sets, composed,
                       typeVars>>

NextJoin ==
    \/ NewSelectQueryBuilder
    \/ CallJoin
    \/ CallOnColumns
    \/ CallBuild

SpecJoin == Init /\ [][NextJoin]_vars

(***************************************************************************)
(* One task: async with pool.transaction(): a body that calls              *)
(* pool.execute some times and then finishes or raises.  A pool.execute    *)
(* that finds no idle connection waits for one.                            *)
(***************************************************************************)
NewAsyncPool ==
    /\ pool = <<>>
    /\ \E db_type \in DbTypes, max_size \in 1..MaxSize :
          pool' = <<AsyncPool(db_type, max_size)>>
    /\ UNCHANGED <<sqlVars, heap, trips, reg, asked, compat, validation, made, meta, named,
                   instances, executable, subclasses>>

EnterTransaction ==
    /\ pool # <<>>
    /\ pool[1].pc = "connected"
    /\ \E conn \in GetConnection(pool[1]) :
          pool' = <<TransactionEnter(pool[1], conn)>>
    /\ UNCHANGED <<sqlVars, heap, trips, reg, asked, compat, validation, made, meta, named,
                   instances, executable, subclasses>>

BodyExecutes ==
    /\ pool # <<>>
    /\ pool[1].pc = "body"
    /\ Len(pool[1].executed) < MaxCalls
    /\ \E conn \in GetConnection(pool[1]), sql \in Statements :
          pool' = <<[PoolExecute(pool[1], conn, sql) EXCEPT !.executed = Append(@, sql)]>>
    /\ UNCHANGED <<sqlVars, heap, trips, reg, asked, compat, validation, made, meta, named,
                   instances, executable, subclasses>>

BodyEnds ==
    /\ pool # <<>>
    /\ pool[1].pc = "body"
    /\ \E outcome \in {""} \cup BodyExceptions :
          pool' = <<TransactionExit(pool[1], outcome)>>
    /\ UNCHANGED <<sqlVars, heap, trips, reg, asked, compat, validation, made, meta, named,
                   instances, executable, subclasses>>

NextPool == NewAsyncPool \/ EnterTransaction \/ BodyExecutes \/ BodyEnds

SpecPool == Init /\ [][NextPool]_vars

(***************************************************************************)
(* A SelectQueryBuilder over User with a registry that holds User and      *)
(* Post; Post is joined, and the ON, WHERE and ORDER BY clauses name       *)
(* columns of either table.                                                *)
(***************************************************************************)
NewSelectOnRegistry ==
    \E d \in Dialects :
        /\ builder = NoBuilder
        /\ Call(SelectInit(<<User>>, d, Some(BothRegistry)))

CallOnJoined ==
    \E jb \in joinBuilders, condition \in JoinedConds :
        /\ Live("Select")
        /\ Len(builder.join_clauses) < MaxClauses
        /\ LET r == JoinBuilderOn(jb, builder, condition)
           IN /\ builder' = r.b
              /\ last' = r.out
        /\ onCalls' = Append(onCalls, JoinClause(jb.join_type, jb.table, Some(condition)))
        /\ UNCHANGED <<joinBuilders, cc, compiled, wheres, builds, sets, composed,
                       typeVars>>

CallWhereJoined ==
    \E condition \in JoinedConds :
        /\ Live("Select")
        /\ Call(SelectWhere(builder, condition))

CallOrderByJoined ==
    \E column_name \in JoinedOrderByInputs :
        /\ Live("Select")
        /\ Len(builder.order_by_clauses) < MaxClauses
        /\ Call(SelectOrderBy(builder, column_name, "ASC"))

NextJoined ==
    \/ NewSelectOnRegistry
    \/ CallJoin
    \/ CallOnJoined
    \/ CallWhereJoined
    \/ CallOrderByJoined
    \/ CallBuild

SpecJoined == Init /\ [][NextJoined]_vars

(***************************************************************************)
(* An InsertQueryBuilder whose values() is called with one or two rows at  *)
(* a time.                                                                 *)
(***************************************************************************)
CallValuesRows ==
    \E rows \in {<<r>> : r \in RowInputs} \cup (RowInputs \X RowInputs) :
        /\ Live("Insert")
        /\ Len(builder._values) < MaxRows
        /\ Call(InsertValues(builder, rows))

NextValues ==
    \/ NewInsertQueryBuilder
    \/ CallValuesRows
    \/ CallBuild

SpecValues == Init /\ [][NextValues]_vars

(***************************************************************************)
(* Table subclasses with distinct class names are declared, and            *)
(* SchemaSnapshot.from_tables is called on them.                           *)
(***************************************************************************)
DeclareAndSnapshot ==
    /\ subclasses = <<>>
    /\ \E classes \in Declarations :
          LET table_classes ==
                  [i \in DOMAIN classes |->
                      InitSubclass(classes[i].class_name, classes[i].columns)]
          IN subclasses' = <<[classes |-> classes,
                            table_classes |-> table_classes,
                            snapshot |-> from_tables(table_classes)]>>
    /\ UNCHANGED <<sqlVars, heap, trips, reg, asked, compat, validation, made, meta, named,
                   instances, executable, pool>>

NextDeclare == DeclareAndSnapshot

SpecDeclare == Init /\ [][NextDeclare]_vars

(***************************************************************************)
(* A ConditionCompiler used on its own: constructed for a dialect, then    *)
(* compile() is called on it with condition trees built by & and |.        *)
(***************************************************************************)
Leaves == {CondA, CondB, CondN, CondNN, CondIn, CondBadIn, CondEmptyIn}

Operands == {CondA, CondN, CondIn, CondBadIn}

Pairs == {CondAnd(x, y) : x, y \in Operands} \cup {CondOr(CondA, CondIn), CondOr(CondIn, CondN)}

Nested ==
    LET P == {CondAnd(CondA, CondIn), CondOr(CondN, CondA)}
    IN {CondAnd(p, x) : p \in P, x \in {CondB, CondIn}}
         \cup {CondOr(p, x) : p \in P, x \in {CondB, CondIn}}
         \cup {CondAnd(p, q) : p, q \in P}
         \cup {CondOr(CondB, p) : p \in P}

CompileConds == Leaves \cup Pairs \cup Nested

NewCompiler ==
    \E d \in Dialects :
        /\ builder = NoBuilder
        /\ cc = None
        /\ cc' = Some(NewConditionCompiler(d))
        /\ last' = Returned("__init__", NoStatement)
        /\ UNCHANGED <<builder, joinBuilders, compiled, onCalls, wheres, builds,
                       sets, composed, typeVars>>

\* cc.compile(condition): last.stmt.text is the fragment returned
CallCompile ==
    \E condition \in CompileConds :
        /\ cc # None
        /\ Len(compiled) < MaxCompiles
        /\ LET r == Compile(cc[1], condition)
           IN /\ cc' = Some(r.c)
              /\ last' = IF r.exc # "" THEN Raised("compile", r.exc, r.msg)
                         ELSE Returned("compile", SQLStatement(r.sql, <<>>))
        /\ compiled' = Append(compiled, condition)
        /\ UNCHANGED <<builder, joinBuilders, onCalls, wheres, builds, sets,
                       composed, typeVars>>

NextCompile == NewCompiler \/ CallCompile

SpecCompile == Init /\ [][NextCompile]_vars

(***************************************************************************)
(* Properties.                                                             *)
(***************************************************************************)
\* the placeholder spellings of a dialect; n bounds the numbers issued
PlaceholderTokens(dialect, n) ==
    IF dialect = "postgresql" THEN {"$" \o ToString(i) : i \in 1..n}
    ELSE IF dialect = "sqlite" THEN {"?"}
    ELSE {"%s"}

\* the placeholders of a text, in order of appearance
PlaceholdersIn(text, dialect, n) ==
    SelectSeq(text, LAMBDA t : t \in PlaceholderTokens(dialect, n))

BuildReturned == builder # NoBuilder /\ last.op = "build" /\ last.exc = ""

BuildRaised == builder # NoBuilder /\ last.op = "build" /\ last.exc # ""

\* C1: every statement a build() returns, on any of the four builders, in any
\* dialect and after any calls (earlier build() calls included), has exactly
\* len(parameters) placeholders in its text.
C1_PlaceholdersMatchParameters ==
    BuildReturned =>
        Len(PlaceholdersIn(last.stmt.text, builder.sql_dialect,
                           builder._compiler._param_counter))
            = Len(last.stmt.parameters)

\* C2: DeleteQueryBuilder.build() raises the safety-labelled AssertionError and
\* returns no statement whenever where() was never called on the builder, in
\* every dialect, with or without a registry; it returns only after a where().
C2_DeleteRequiresWhere ==
    (builder.cls = "Delete" /\ last.op = "build") =>
        /\ Len(wheres) = 0 =>
              /\ last.exc = "AssertionError"
              /\ last.msg = <<"DELETE requires WHERE clause (safety: no unrestricted deletes)">>
              /\ last.stmt = NoStatement
        /\ last.exc = "" => Len(wheres) > 0

C2_Witness ==
    /\ builder.cls = "Delete"
    /\ builder.registry # None
    /\ builder.sql_dialect = "mysql"
    /\ last.op = "build"
    /\ wheres = <<>>
    /\ last.exc = "AssertionError"

\* the values a condition tree binds, depth first and left to right
RECURSIVE ValuesOf(_)
RECURSIVE ValuesOfAll(_)
ValuesOf(condition) ==
    IF IsColumnCondition(condition)
    THEN IF condition.operator \in {"IS NULL", "IS NOT NULL"} THEN <<>>
         ELSE IF condition.operator = "IN"
              THEN [i \in DOMAIN condition.value.items |-> PyInt(condition.value.items[i])]
              ELSE <<condition.value>>
    ELSE ValuesOfAll(condition.conditions)

ValuesOfAll(conds) ==
    IF Len(conds) = 0 THEN <<>> ELSE ValuesOf(Head(conds)) \o ValuesOfAll(Tail(conds))

\* C3: for a condition tree compiled by a fresh ConditionCompiler, the text has as
\* many placeholders as parameters were accumulated, the parameters are the tree's
\* values depth first and left to right, and under postgresql the placeholders are
\* $1, $2, ..., $n in order of appearance.
C3_FreshCompile ==
    (cc # None /\ Len(compiled) = 1 /\ last.op = "compile" /\ last.exc = "") =>
        LET c == cc[1]
            text == last.stmt.text
            n == Len(c.parameters)
            phs == PlaceholdersIn(text, c.sql_dialect, Len(text))
        IN /\ Len(phs) = n
           /\ c.parameters = ValuesOf(compiled[1])
           /\ c.sql_dialect = "postgresql" => phs = [i \in 1..n |-> "$" \o ToString(i)]

C3_Witness ==
    /\ cc # None
    /\ cc[1].sql_dialect = "postgresql"
    /\ compiled = <<CondAnd(CondAnd(CondA, CondIn), CondOr(CondN, CondA))>>
    /\ last.op = "compile"
    /\ last.exc = ""
    /\ Len(cc[1].parameters) = 4

\* C4: compiling a simple condition emits no placeholder and appends no parameter
\* for IS NULL / IS NOT NULL; emits one placeholder and appends one parameter per
\* list element, in list order, for IN; emits one placeholder and appends one
\* parameter for every other operator; IN with a value that is no list raises and
\* appends nothing.
C4_SimpleEmission ==
    [][(cc # None /\ Len(compiled') = Len(compiled) + 1
          /\ IsColumnCondition(compiled'[Len(compiled')])) =>
        LET condition == compiled'[Len(compiled')]
            before == cc[1].parameters
            after == cc'[1].parameters
            added == SubSeq(after, Len(before) + 1, Len(after))
            emitted == Len(PlaceholdersIn(last'.stmt.text, cc[1].sql_dialect,
                                          cc'[1]._param_counter))
        IN /\ Len(after) >= Len(before)
           /\ SubSeq(after, 1, Len(before)) = before
           /\ condition.operator \in {"IS NULL", "IS NOT NULL"} =>
                 last'.exc = "" /\ emitted = 0 /\ added = <<>>
           /\ (condition.operator = "IN" /\ condition.value.ty = "list") =>
                 /\ last'.exc = ""
                 /\ emitted = Len(condition.value.items)
                 /\ added = [i \in DOMAIN condition.value.items |->
                                PyInt(condition.value.items[i])]
           /\ (condition.operator = "IN" /\ condition.value.ty # "list") =>
                 last'.exc = "AssertionError" /\ cc' = cc
           /\ condition.operator \notin {"IS NULL", "IS NOT NULL", "IN"} =>
                 last'.exc = "" /\ emitted = 1 /\ added = <<condition.value>>
    ]_vars

C4_Witness ==
    /\ cc # None
    /\ compiled = <<CondA, CondIn>>
    /\ last.op = "compile"
    /\ last.exc = ""
    /\ cc[1].parameters = <<PyInt(1), PyInt(3), PyInt(4)>>

\* a build() call is the step taken
BuildStep == builder # NoBuilder /\ Len(builds') = Len(builds) + 1

\* the builder a fresh construction with the same clauses gives: nothing compiled yet
Fresh(self) == [self EXCEPT !._compiler = NewConditionCompiler(self.sql_dialect)]

\* C5: a build() that fails returns no statement and leaves the builder as it
\* was, so that the first build() to succeed after failed ones returns the
\* statement a fresh builder holding the same clauses returns.
C5_FailedBuildLeavesNoTrace ==
    /\ BuildRaised => last.stmt = NoStatement
    /\ (BuildReturned /\ \A i \in 1..(Len(builds) - 1) : builds[i] # "") =>
          last.stmt = Build(Fresh(builder)).out.stmt

\* the column names a condition tree names, at every depth
RECURSIVE ColumnsOf(_)
ColumnsOf(condition) ==
    IF IsColumnCondition(condition)
    THEN {condition.column_name}
    ELSE UNION {ColumnsOf(condition.conditions[i]) : i \in DOMAIN condition.conditions}

\* the column names the WHERE, JOIN-ON and ORDER BY clauses of a Select name
ColumnsNamed(self) ==
    (IF self.where_clause = None THEN {} ELSE ColumnsOf(self.where_clause[1]))
        \cup UNION {IF self.join_clauses[i].on_condition = None THEN {}
                    ELSE ColumnsOf(self.join_clauses[i].on_condition[1])
                       : i \in DOMAIN self.join_clauses}
        \cup {self.order_by_clauses[i].column_name : i \in DOMAIN self.order_by_clauses}

ColumnInRegistry(registry, column_name) ==
    \E t \in registry.snapshot.tables : column_name \in t.columns

\* C6: with a registry attached, a SelectQueryBuilder.build() raises the "not
\* found" ValueError, returns no statement and compiles nothing (the builder,
\* its compiler included, is left untouched) whenever a column named in the
\* WHERE condition, a JOIN-ON condition or an ORDER BY is in no table of the
\* registry, however deep in a compound condition the column is named.
C6_UnknownColumnRejected ==
    [][(/\ BuildStep
        /\ builder.cls = "Select"
        /\ builder.registry # None
        /\ \E col \in ColumnsNamed(builder) :
              ~ColumnInRegistry(builder.registry[1], col)) =>
            /\ last'.op = "build"
            /\ last'.exc = "ValueError"
            /\ Len(last'.msg) = 3
            /\ last'.msg[1] = "Column '"
            /\ last'.msg[2] \in ColumnsNamed(builder)
            /\ last'.msg[3] \in {"' not found in selected tables",
                                 "' not found in any selected table"}
            /\ last'.stmt = NoStatement
            /\ builder' = builder
    ]_vars

C6_Witness ==
    /\ builder.cls = "Select"
    /\ builder.registry # None
    /\ builder.where_clause = Some(CondGhostDeep)
    /\ builder.join_clauses = <<>>
    /\ builder.order_by_clauses = <<>>
    /\ last.op = "build"
    /\ last.exc = "ValueError"
    /\ last.msg = <<"Column '", "ghost", "' not found in selected tables">>
    /\ builder._compiler = NewConditionCompiler(builder.sql_dialect)

\* the positions of a token in a text, in increasing order
PositionsOf(text, token) ==
    SelectSeq([i \in DOMAIN text |-> i], LAMBDA i : text[i] = token)

\* the table names a SELECT statement's text references: those of the FROM
\* list, which ends with the first line, and the one after every JOIN
TablesReferenced(text) ==
    LET nl == PositionsOf(text, "\n")
        fromEnd == IF Len(nl) = 0 THEN Len(text) ELSE nl[1] - 1
        joins == PositionsOf(text, "JOIN")
    IN ({text[i] : i \in 4..fromEnd} \ {","})
          \cup {text[joins[k] + 1] : k \in DOMAIN joins}

\* C7: with a registry attached, no statement a SelectQueryBuilder returns
\* references a table the registry does not hold, be it a FROM table or a
\* table added through join(table).on(condition).
C7_NoUnknownTableReferenced ==
    (BuildReturned /\ builder.cls = "Select" /\ builder.registry # None) =>
        \A table_name \in TablesReferenced(last.stmt.text) :
            table_exists(builder.registry[1], table_name)

\* C8: when build() returns with a registry attached, on any of the four
\* builders, the text and the parameters returned are those the same builder
\* returns with no registry attached.
C8_RegistryOnlyAcceptsOrRejects ==
    [][(BuildStep /\ builder.registry # None /\ last'.exc = "") =>
            /\ last'.op = "build"
            /\ last'.stmt.text = Build([builder EXCEPT !.registry = None]).out.stmt.text
            /\ last'.stmt.parameters =
                  Build([builder EXCEPT !.registry = None]).out.stmt.parameters
            /\ Build([builder EXCEPT !.registry = None]).out.exc = ""
    ]_vars

C8_Witness ==
    /\ builder.cls = "Delete"
    /\ builder.registry # None
    /\ builder.sql_dialect = "postgresql"
    /\ builder.where_clause = Some(CondA)
    /\ builds = <<"">>
    /\ last.op = "build"
    /\ last.stmt = SQLStatement(<<"DELETE FROM", "user", "\n", "WHERE", "id", "=", "$1">>,
                                <<PyInt(1)>>)

\* where() of the builder's class
Where(self, condition) ==
    IF self.cls = "Select" THEN SelectWhere(self, condition).b
    ELSE IF self.cls = "Update" THEN UpdateWhere(self, condition).b
    ELSE DeleteWhere(self, condition).b

\* C9: on a Select, Update or Delete builder, after where(c1) and then
\* where(c2), build() returns or raises what it does on the builder that had
\* only where(c2) called on it: c1 is discarded.
C9_WhereOverwrites ==
    [][(/\ BuildStep
        /\ builder.cls \in {"Select", "Update", "Delete"}
        /\ Len(wheres) = 2) =>
            /\ builder.where_clause = Some(wheres[2])
            /\ last' = Build(Where([builder EXCEPT !.where_clause = None],
                                   wheres[2])).out
    ]_vars

C9_Witness ==
    /\ builder.cls = "Update"
    /\ wheres = <<CondGhostDeep, CondA>>
    /\ builds = <<"">>
    /\ last.op = "build"
    /\ last.stmt.parameters = <<PyStr(1), PyInt(1)>>

\* the joins a SELECT statement's text renders, in order: for every JOIN its
\* type, its table, and the column and operator its ON condition opens with
JoinsRendered(text) ==
    LET joins == PositionsOf(text, "JOIN")
    IN [k \in DOMAIN joins |->
           <<text[joins[k] - 1], text[joins[k] + 1], text[joins[k] + 2],
             text[joins[k] + 3], text[joins[k] + 4]>>]

\* what an on() call recorded is rendered as, for a simple ON condition
JoinCalled(join) ==
    <<join.join_type, TableName(join.table), "ON",
      join.on_condition[1].column_name, join.on_condition[1].operator>>

\* C10: join() alone leaves the join list and every other clause of the
\* SelectQueryBuilder unchanged; the join list holds exactly the joins that
\* on() was called for, in call order; and a build() that returns renders
\* exactly those joins, in that order.
C10_JoinRecordedByOn ==
    [][/\ last'.op = "join" => builder' = builder
       /\ (builder' # NoBuilder /\ builder'.cls = "Select") =>
             builder'.join_clauses = onCalls'
       /\ (BuildStep /\ builder.cls = "Select" /\ last'.exc = "") =>
             JoinsRendered(last'.stmt.text)
                = [k \in DOMAIN onCalls |-> JoinCalled(onCalls[k])]
    ]_vars

C10_Witness ==
    /\ builder.cls = "Select"
    /\ Cardinality(joinBuilders) = 1
    /\ Len(onCalls) = 2
    /\ onCalls[1].on_condition = Some(CondG)
    /\ onCalls[2].on_condition = Some(CondJ)
    /\ last.op = "build"
    /\ last.exc = ""
    /\ JoinsRendered(last.stmt.text)
          = <<<<"LEFT", "post", "ON", "ghost", "=">>, <<"LEFT", "post", "ON", "id", ">">>>>

\* the lines of a text: the token sequences between its "\n" tokens
LinesOf(text) ==
    LET nl == PositionsOf(text, "\n")
    IN [k \in 1..(Len(nl) + 1) |->
           SubSeq(text,
                  IF k = 1 THEN 1 ELSE nl[k - 1] + 1,
                  IF k = Len(nl) + 1 THEN Len(text) ELSE nl[k] - 1)]

\* the clause a line of a SELECT statement renders, by the keyword it opens with
ClauseOf(line) ==
    IF Len(line) >= 2 /\ line[2] = "JOIN" THEN "JOIN" ELSE line[1]

\* n times the same element
Repeat(x, n) == [k \in 1..n |-> x]

\* the values the ON conditions of a join list bind, join after join
RECURSIVE JoinValues(_)
JoinValues(joins) ==
    IF Len(joins) = 0 THEN <<>>
    ELSE ValuesOf(Head(joins).on_condition[1]) \o JoinValues(Tail(joins))

\* C11: whatever the order in which where, join/on, order_by, limit and offset
\* were called, a build() that returns gives one line per clause in the order
\* SELECT, JOINs, WHERE, ORDER BYs, LIMIT, OFFSET; every order_by call appends
\* one clause and has its own ORDER BY line, in call order; and the parameters
\* the build adds to those the compiler held are the JOIN-ON values followed by
\* the WHERE values.
C11_ClauseOrder ==
    [][/\ (builder # NoBuilder /\ builder.cls = "Select" /\ last'.op = "method"
             /\ builder'.order_by_clauses # builder.order_by_clauses) =>
            /\ Len(builder'.order_by_clauses) = Len(builder.order_by_clauses) + 1
            /\ SubSeq(builder'.order_by_clauses, 1, Len(builder.order_by_clauses))
                  = builder.order_by_clauses
       /\ (BuildStep /\ builder.cls = "Select" /\ last'.exc = "") =>
            LET lines == LinesOf(last'.stmt.text)
                nj == Len(onCalls)
                nw == IF wheres = <<>> THEN 0 ELSE 1
                no == Len(builder.order_by_clauses)
            IN /\ [k \in DOMAIN lines |-> ClauseOf(lines[k])]
                    = <<"SELECT">> \o Repeat("JOIN", nj) \o Repeat("WHERE", nw)
                        \o Repeat("ORDER BY", no)
                        \o (IF builder.limit_clause # None THEN <<"LIMIT">> ELSE <<>>)
                        \o (IF builder.offset_clause # None THEN <<"OFFSET">> ELSE <<>>)
               /\ \A k \in 1..no :
                     lines[1 + nj + nw + k]
                        = <<"ORDER BY", builder.order_by_clauses[k].column_name,
                            builder.order_by_clauses[k].direction>>
               /\ last'.stmt.parameters
                    = builder._compiler.parameters \o JoinValues(onCalls)
                        \o (IF wheres = <<>> THEN <<>> ELSE ValuesOf(wheres[Len(wheres)]))
    ]_vars

C11_Witness ==
    /\ builder.cls = "Select"
    /\ builder.sql_dialect = "sqlite"
    /\ last.op = "build"
    /\ last.stmt.text = <<"SELECT", "*", "FROM", "user", "\n",
                          "LEFT", "JOIN", "post", "ON", "id", ">", "?", "\n",
                          "WHERE", "id", "=", "?", "\n",
                          "ORDER BY", "email", "ASC", "\n",
                          "LIMIT", "1", "\n",
                          "OFFSET", "0">>
    /\ last.stmt.parameters = <<PyInt(7), PyInt(1)>>

\* a condition compile() raises for: one with an IN leaf whose value is no list
RECURSIVE HasNonListIn(_)
HasNonListIn(condition) ==
    IF IsColumnCondition(condition)
    THEN condition.operator = "IN" /\ condition.value.ty # "list"
    ELSE \E i \in DOMAIN condition.conditions : HasNonListIn(condition.conditions[i])

UpdateBuildStep == BuildStep /\ builder.cls = "Update" /\ builder.registry = None

\* C12 as stated: without a registry UpdateQueryBuilder.build() succeeds
\* exactly when the SET map is non-empty, whether or not where() was called.
C12_SucceedsIffSetNonEmpty ==
    [][UpdateBuildStep => (last'.exc = "" <=> Len(builder._set_values) > 0)]_vars

\* C12, amended: without a registry UpdateQueryBuilder.build() succeeds exactly
\* when the SET map is non-empty and the WHERE condition, if where() was called,
\* holds no IN condition whose value is not a list; when where() was never
\* called the text has no WHERE fragment and the parameters are exactly the SET
\* values.
C12_SucceedsIffSetNonEmptyAndWhereCompiles ==
    [][UpdateBuildStep =>
         /\ last'.exc = ""
              <=> /\ Len(builder._set_values) > 0
                  /\ wheres = <<>> \/ ~HasNonListIn(wheres[Len(wheres)])
         /\ (wheres = <<>> /\ last'.exc = "") =>
              /\ PositionsOf(last'.stmt.text, "WHERE") = <<>>
              /\ last'.stmt.parameters
                   = [i \in DOMAIN builder._set_values |-> builder._set_values[i].v]
    ]_vars

\* a second build() of an UPDATE without WHERE: the parameters are again the SET
\* values alone
C12_Witness ==
    /\ builder.cls = "Update"
    /\ builder.registry = None
    /\ wheres = <<>>
    /\ builds = <<"", "">>
    /\ last.op = "build"
    /\ last.stmt.parameters = <<PyInt(2), PyStr(3)>>

\* $a, $a+1, ..., $b
Numbered(a, b) == [i \in 1..(b - a + 1) |-> "$" \o ToString(a + i - 1)]

\* C13: under postgresql an UpdateQueryBuilder with k SET columns and a WHERE
\* condition carrying m values builds a statement whose SET line holds $1..$k in
\* SET-map order, whose WHERE line holds $k+1..$k+m, and whose parameters are the
\* k SET values followed by the m WHERE values.
C13_UpdatePlaceholdersContinue ==
    [][(/\ BuildStep
        /\ builder.cls = "Update"
        /\ builder.sql_dialect = "postgresql"
        /\ wheres # <<>>
        /\ last'.exc = "") =>
         LET k == Len(builder._set_values)
             values == ValuesOf(wheres[Len(wheres)])
             m == Len(values)
             text == last'.stmt.text
             lines == LinesOf(text)
         IN /\ Len(lines) = 3
            /\ lines[2] = <<"SET">>
                 \o JoinTokens([i \in 1..k |->
                                   <<builder._set_values[i].k, "=", "$" \o ToString(i)>>],
                               ",")
            /\ PlaceholdersIn(lines[3], "postgresql", Len(text)) = Numbered(k + 1, k + m)
            /\ last'.stmt.parameters
                 = [i \in 1..k |-> builder._set_values[i].v] \o values
    ]_vars

\* the calls of a history that set the key
CallsSetting(history, key) ==
    {i \in DOMAIN history : key \in DictKeySet(history[i])}

Max(S) == CHOOSE x \in S : \A y \in S : y <= x

\* C14: after any sequence of set() calls the SET map holds every key a call
\* has set, each with the value of the last call that set it, and none else;
\* a set() call with no columns raises and leaves the builder as it was, and
\* any other set() call returns.
C14_SetMerges ==
    [][(builder # NoBuilder /\ sets' # sets) =>
         LET kwargs == sets'[Len(sets')]
             map == builder'._set_values
         IN /\ kwargs = <<>> => (last'.exc = "AssertionError" /\ builder' = builder)
            /\ kwargs # <<>> => last'.exc = ""
            /\ DictKeySet(map) = UNION {DictKeySet(sets'[i]) : i \in DOMAIN sets'}
            /\ \A key \in DictKeySet(map) :
                  DictGet(map, key) = DictGet(sets'[Max(CallsSetting(sets', key))], key)
            /\ DictKeySet(builder._set_values) \subseteq DictKeySet(map)
    ]_vars

\* email set, a set() without columns, then id and email set: email holds the
\* later value
C14_Witness ==
    /\ builder.cls = "Update"
    /\ sets = <<<<Item("email", PyStr(1))>>, <<>>,
                <<Item("id", PyInt(2)), Item("email", PyStr(3))>>>>
    /\ builder._set_values = <<Item("email", PyStr(3)), Item("id", PyInt(2))>>
    /\ last.exc = ""

\* the rows of an Insert builder name the same fields
SameFields(rows) ==
    \A i, j \in DOMAIN rows :
        \A n \in DOMAIN rows[i] : \E m \in DOMAIN rows[j] : rows[i][n].k = rows[j][m].k

\* C15: InsertQueryBuilder.build() raises AssertionError when no row was added
\* or when some row's field names differ, as a set, from the first row's;
\* without a registry it returns a statement whenever there are rows and they
\* name the same fields, in whatever order each row lists them.
C15_InsertRowsSameFields ==
    [][(BuildStep /\ builder.cls = "Insert") =>
         /\ (builder._values = <<>> \/ ~SameFields(builder._values))
               => (last'.exc = "AssertionError" /\ last'.stmt = NoStatement)
         /\ (builder.registry = None /\ builder._values # <<>>
               /\ SameFields(builder._values))
               => last'.exc = ""
    ]_vars

\* two rows with the same fields in different orders, built without a registry
C15_Witness ==
    /\ builder.cls = "Insert"
    /\ builder.registry = None
    /\ builder._values = <<<<Item("id", PyInt(1)), Item("email", PyStr(2))>>,
                           <<Item("email", PyStr(3)), Item("id", PyInt(4))>>>>
    /\ last.op = "build"
    /\ last.exc = ""

\* the n-th placeholder of a statement in a dialect
Placeholder(dialect, n) ==
    IF dialect = "postgresql" THEN "$" \o ToString(n)
    ELSE IF dialect = "sqlite" THEN "?"
    ELSE "%s"

\* the column names between the parentheses of an INSERT statement's first line
EmittedColumns(line) ==
    SelectSeq(SubSeq(line, 4, Len(line)), LAMBDA t : t \notin {",", ")"})

\* C16: for r rows over c columns InsertQueryBuilder.build() emits one VALUES
\* keyword followed by r comma-joined tuples of c placeholders, numbered
\* $1..$(r*c) row by row under postgresql, and parameters[i*c + j] is row i's
\* value for the j-th emitted column, whatever order row i lists its fields in.
C16_InsertRowMajor ==
    [][(BuildStep /\ builder.cls = "Insert" /\ last'.exc = "") =>
         LET rows == builder._values
             r == Len(rows)
             text == last'.stmt.text
             lines == LinesOf(text)
             columns == EmittedColumns(lines[1])
             c == Len(columns)
         IN /\ Len(lines) = 2
            /\ c = Len(rows[1])
            /\ Len(PositionsOf(text, "VALUES")) = 1
            /\ lines[2]
                 = <<"VALUES">>
                     \o JoinTokens(
                          [i \in 1..r |->
                             <<"(">>
                               \o JoinTokens(
                                    [j \in 1..c |->
                                       <<Placeholder(builder.sql_dialect,
                                                     (i - 1) * c + j)>>],
                                    ",")
                               \o <<")">>],
                          ",")
            /\ last'.stmt.parameters
                 = [n \in 1..(r * c) |->
                      DictGet(rows[((n - 1) \div c) + 1], columns[((n - 1) % c) + 1])]
    ]_vars

\* the name is no column of the builder's table in the builder's registry
NotAColumn(self, column_name) ==
    ~\E t \in self.registry[1].snapshot.tables :
        t.name = self.table.name /\ column_name \in t.columns

\* a build() of a builder with a registry that names something that is no column
\* of its table: in a row's fields (Insert), in the SET keys or the WHERE
\* condition (Update), in the WHERE condition (Delete)
NamesUnknownColumn(self) ==
    /\ self.cls \in {"Insert", "Update", "Delete"}
    /\ self.registry # None
    /\ \/ /\ self.cls = "Insert"
          /\ \E i \in DOMAIN self._values : \E n \in DOMAIN self._values[i] :
                NotAColumn(self, self._values[i][n].k)
       \/ /\ self.cls = "Update"
          /\ \E n \in DOMAIN self._set_values : NotAColumn(self, self._set_values[n].k)
       \/ /\ self.cls \in {"Update", "Delete"}
          /\ self.where_clause # None
          /\ \E col \in ColumnsOf(self.where_clause[1]) : NotAColumn(self, col)

\* C17 as stated: with a registry, a build() that names an unknown column
\* fails and returns no statement, and on an InsertQueryBuilder the failure is
\* the "not found" ValueError.
C17_UnknownColumnNotFound ==
    [][(BuildStep /\ NamesUnknownColumn(builder)) =>
         /\ last'.exc # ""
         /\ last'.stmt = NoStatement
         /\ builder.cls = "Insert" => last'.exc = "ValueError"
    ]_vars

\* C17, amended: with a registry, a build() that names an unknown column fails
\* and returns no statement; on an InsertQueryBuilder the failure is the "not
\* found" ValueError when the rows name the same fields, and the AssertionError
\* of differing rows otherwise.
C17_UnknownColumnFails ==
    [][(BuildStep /\ NamesUnknownColumn(builder)) =>
         /\ last'.exc # ""
         /\ last'.stmt = NoStatement
         /\ builder.cls = "Insert" =>
              IF SameFields(builder._values)
              THEN /\ last'.exc = "ValueError"
                   /\ \E col \in DictKeySet(builder._values[1]) :
                         /\ NotAColumn(builder, col)
                         /\ last'.msg = ColumnNotInTable(col, builder.table.name)
              ELSE last'.exc = "AssertionError"
    ]_vars

\* an UPDATE with known SET keys whose WHERE names ghost two levels down
C17_Witness ==
    /\ builder.cls = "Update"
    /\ builder.registry # None
    /\ DictKeySet(builder._set_values) = {"email"}
    /\ builder.where_clause = Some(CondGhostDeep)
    /\ last.op = "build"
    /\ last.exc = "ValueError"
    /\ last.msg = ColumnNotInTable("ghost", "user")

\* the tables a builder was constructed for
TablesOf(self) ==
    IF self.cls = "Select" THEN {self.tables[i] : i \in DOMAIN self.tables}
    ELSE {self.table}

RegistryHolds(registry, table_name) ==
    \E t \in registry.snapshot.tables : t.name = table_name

\* C18: a builder of any of the four kinds constructed with a registry and a
\* table the registry does not hold is never returned: the constructor raises
\* the ValueError that names the table and there is no builder, so every
\* builder that has a registry has its tables in it.
C18_UnknownTableNoBuilder ==
    /\ (builder # NoBuilder /\ builder.registry # None) =>
          \A t \in TablesOf(builder) : RegistryHolds(builder.registry[1], t.name)
    /\ (last.op = "__init__" /\ last.exc = "ValueError") =>
          /\ builder = NoBuilder
          /\ builds = <<>>
          /\ \E t \in {User, Post} :
                /\ ~RegistryHolds(UserRegistry, t.name)
                /\ last.msg = <<"Table '", t.name, "' not found in schema registry">>

C18_Witness ==
    /\ builder = NoBuilder
    /\ last.op = "__init__"
    /\ last.exc = "ValueError"
    /\ last.msg = <<"Table '", "post", "' not found in schema registry">>

\* C19: a limit() call that raises, and an offset() call that raises, leaves the
\* builder, its limit and offset included, as it was, and no build is made by
\* it; a limit() call that returns has stored a number above 0 and an offset()
\* call that returns a number of 0 or more, so limit(n) with n <= 0 and
\* offset(n) with n < 0 raise at the call; and a SelectQueryBuilder constructed
\* with no table raises at construction, so that no Select builder is without
\* tables.
C19_LimitOffsetFailFast ==
    [][/\ (last'.op = "limit" /\ last'.exc # "") =>
            /\ last'.exc = "AssertionError"
            /\ builder' = builder
            /\ builds' = builds
       /\ (last'.op = "limit" /\ last'.exc = "") =>
            /\ builder'.limit_clause # None
            /\ builder'.limit_clause[1] > 0
            /\ builder' = [builder EXCEPT !.limit_clause = builder'.limit_clause]
       /\ (last'.op = "offset" /\ last'.exc # "") =>
            /\ last'.exc = "AssertionError"
            /\ builder' = builder
            /\ builds' = builds
       /\ (last'.op = "offset" /\ last'.exc = "") =>
            /\ builder'.offset_clause # None
            /\ builder'.offset_clause[1] >= 0
            /\ builder' = [builder EXCEPT !.offset_clause = builder'.offset_clause]
       /\ (last'.op = "__init__" /\ last'.msg = <<"At least one table required">>) =>
            /\ last'.exc = "AssertionError"
            /\ builder' = NoBuilder
       /\ (builder' # NoBuilder /\ builder'.cls = "Select") => builder'.tables # <<>>
    ]_vars

\* limit(1), offset(0) and a WHERE were set and the last call, a limit(), raised
C19_Witness ==
    /\ builder.cls = "Select"
    /\ last.op = "limit"
    /\ last.exc = "AssertionError"
    /\ builder.limit_clause = Some(1)
    /\ builder.offset_clause = Some(0)
    /\ builder.where_clause # None
    /\ builds = <<>>

\* C20: for column conditions A, B and C, (A & B) & C is one AND node with the
\* children A, B, C in that order, and likewise | gives one OR node; (A & B) | C
\* and (A | B) & C are nodes of two children whose first child is the node
\* composed first; and a compound composed with a compound, or with anything
\* under the other operator, is a node of the two operands.
C20_FlattenSameOperatorOnly ==
    /\ \A i, j \in DOMAIN composed :
          LET first == composed[i]
              second == composed[j]
          IN (/\ i < j
              /\ second.left = first.result
              /\ IsColumnCondition(first.left)
              /\ IsColumnCondition(first.right)
              /\ IsColumnCondition(second.right)) =>
                 IF second.operator = first.operator
                 THEN /\ second.result.operator = first.operator
                      /\ second.result.conditions
                           = <<first.left, first.right, second.right>>
                 ELSE /\ second.result.operator = second.operator
                      /\ second.result.conditions = <<first.result, second.right>>
                      /\ Len(first.result.conditions) = 2
    /\ \A i \in DOMAIN composed :
          LET e == composed[i]
          IN (\/ ~IsColumnCondition(e.left) /\ ~IsColumnCondition(e.right)
              \/ ~IsColumnCondition(e.left) /\ e.left.operator # e.operator
              \/ ~IsColumnCondition(e.right) /\ e.right.operator # e.operator) =>
                 /\ e.result.operator = e.operator
                 /\ e.result.conditions = <<e.left, e.right>>

\* (id = 1 & email LIKE 2) & email IS NULL: one AND node of three children
C20_Witness ==
    /\ Len(composed) = 2
    /\ composed[1].result = CompoundCondition(<<CondA, CondB>>, "AND")
    /\ composed[2].left = composed[1].result
    /\ composed[2].result = CompoundCondition(<<CondA, CondB, CondN>>, "AND")

\* C21: no compiler and no builder emits the fragment IN (): the text of no
\* compile() and of no statement holds IN followed by an empty pair of
\* parentheses.
C21_NeverEmitsEmptyIn ==
    LET text == last.stmt.text
    IN ~\E i \in DOMAIN text :
          /\ i + 2 <= Len(text)
          /\ text[i] = "IN"
          /\ text[i + 1] = "("
          /\ text[i + 2] = ")"

\* the condition tree seen through a reference: children, operator and values
RECURSIVE TreeOf(_, _)
TreeOf(h, id) ==
    IF h[id].kind = "ColumnCondition" THEN h[id].condition
    ELSE LET items == h[h[id].conditions].items
         IN CompoundCondition([i \in DOMAIN items |-> TreeOf(h, items[i])],
                              h[id].operator)

\* C22: x & y and x | y, the flattening case included, change no condition that
\* existed before: every object is still there and the tree seen through every
\* reference, the operands' among them, has the children, operator and values
\* it had.
C22_CompositionLeavesOperands ==
    [][/\ Len(heap') >= Len(heap)
       /\ \A id \in ConditionIds(heap) :
             /\ heap'[id].kind = heap[id].kind
             /\ TreeOf(heap', id) = TreeOf(heap, id)
    ]_vars

\* x = id = 1 & email LIKE 2 and then x & email IS NULL: the result has three
\* children in a list of its own, and x still has two
C22_Witness ==
    \E x, r \in ConditionIds(heap) :
        /\ TreeOf(heap, x) = CompoundCondition(<<CondA, CondB>>, "AND")
        /\ TreeOf(heap, r) = CompoundCondition(<<CondA, CondB, CondN>>, "AND")
        /\ heap[r].conditions # heap[x].conditions


(***************************************************************************)
(* C23: for any declared tables T from which a snapshot can be taken,      *)
(* from_json(to_json(from_tables(T))) is returned and equals               *)
(* from_tables(T) field for field: the same table keys and primary-key     *)
(* names, the same column keys, the same type name, primary_key, unique,   *)
(* nullable, default and default_factory presence of every column, and the *)
(* same format version.                                                    *)
(***************************************************************************)
C23_RoundTrip ==
    \A n \in DOMAIN trips :
        trips[n].snapshot.exc = "" =>
            /\ trips[n].json.exc = ""
            /\ trips[n].loaded.exc = ""
            /\ trips[n].loaded.value = trips[n].snapshot.value


(***************************************************************************)
(* C24: table_exists and column_exists return a boolean and never raise,   *)
(* and column_exists is false for an unknown table; get_table and          *)
(* get_primary_key raise KeyError exactly when table_exists is false, and  *)
(* get_column raises KeyError exactly when column_exists is false; no      *)
(* query changes the snapshot the registry wraps.                          *)
(***************************************************************************)
C24_RegistryQueries ==
    [][Len(asked') > Len(asked) =>
          LET q == asked'[Len(asked')]
              r == q.result
              known == table_exists(reg[1], q.table_name)
          IN /\ reg'[1].snapshot = reg[1].snapshot
             /\ r.exc \in {"", "KeyError"}
             /\ q.query \in {"table_exists", "column_exists"} =>
                    r.exc = "" /\ r.value \in BOOLEAN
             /\ q.query = "table_exists" => r.value = known
             /\ q.query = "column_exists" /\ ~known => r.value = FALSE
             /\ q.query \in {"get_table", "get_primary_key"} =>
                    (r.exc = "KeyError" <=> ~known)
             /\ q.query = "get_column" =>
                    (r.exc = "KeyError" <=>
                        ~column_exists(reg[1], q.table_name, q.column_name))]_vars

\* column_exists("ghost", "id") has returned False and then get_column of a
\* column the known table user does not have has raised KeyError
C24_Witness ==
    /\ Len(asked) = 2
    /\ asked[1].query = "column_exists" /\ asked[1].table_name = "ghost"
    /\ asked[1].result.exc = "" /\ asked[1].result.value = FALSE
    /\ asked[2].query = "get_column" /\ asked[2].table_name = "user"
    /\ asked[2].column_name = "title" /\ asked[2].result.exc = "KeyError"


(***************************************************************************)
(* C27: the validator's compatibility of database type names is symmetric: *)
(* types_compatible(a, b) = types_compatible(b, a) for all names a and b,  *)
(* compared without their length qualifiers and ignoring case; any two     *)
(* names of one alias class (INTEGER/INT/BIGINT/SMALLINT,                  *)
(* TEXT/VARCHAR/CHAR/LONGTEXT, FLOAT/DOUBLE/REAL, NUMERIC/DECIMAL) are     *)
(* compatible in both directions.                                          *)
(***************************************************************************)
AliasClasses ==
    {{"INTEGER", "INT", "BIGINT", "SMALLINT"}, {"TEXT", "VARCHAR", "CHAR", "LONGTEXT"},
     {"FLOAT", "DOUBLE", "REAL"}, {"NUMERIC", "DECIMAL"}}

C27_CompatibleSymmetric ==
    compat # None =>
        /\ compat[1].ab = compat[1].ba
        /\ (\E class \in AliasClasses :
              /\ TypeBase(compat[1].a) \in {<<n>> : n \in class}
              /\ TypeBase(compat[1].b) \in {<<n>> : n \in class})
           => compat[1].ab /\ compat[1].ba


(***************************************************************************)
(* C25: live validation of a table succeeds only if the live column names  *)
(* are the declared column names: a declared column missing live raises an *)
(* AssertionError that names the table and that column, a live column not  *)
(* declared raises an AssertionError that names the table, and a table     *)
(* with no live column fails.                                              *)
(***************************************************************************)
\* the table compared last has its verdict
Compared == Len(validation.answers) > 0 /\ validation.stage # "comparing"

LastTable == validation.tables[Len(validation.answers)]

LastLive == validation.answers[Len(validation.answers)]

Failed == validation.stage = "raised"

C25_SameColumnNames ==
    Compared =>
        LET declared == DictKeySet(LastTable.columns)
            live == DictKeySet(LastLive)
        IN /\ ~Failed => live = declared
           /\ declared \ live # {} =>
                 /\ Failed
                 /\ validation.exc = "AssertionError"
                 /\ validation.msg.table = LastTable.name
                 /\ validation.msg.column \in declared \ live
           /\ live \ declared # {} =>
                 /\ Failed
                 /\ validation.exc = "AssertionError"
                 /\ validation.msg.table = LastTable.name
           /\ live = {} => Failed


(***************************************************************************)
(* C26: for every declared column the database reports, validation fails   *)
(* when its declared primary_key flag differs from the live one; it fails  *)
(* on a difference of nullability for columns not declared primary key     *)
(* only, and a declared primary key that is a primary key live passes      *)
(* whatever nullability is reported: with equal column names, compatible   *)
(* types, equal key flags and equal nullability of the other columns the   *)
(* table validates.                                                        *)
(***************************************************************************)
\* the declared columns the database reports, as pairs of the declared column
\* and the live record
ColumnsPresent(table, actual_columns) ==
    {<<table.columns[i], DictGet(actual_columns, table.columns[i].k)>> :
        i \in {j \in DOMAIN table.columns : table.columns[j].k \in DictKeySet(actual_columns)}}

TypeMatches(db_type, pair) ==
    /\ python_to_db(db_type, pair[1].v.python_type).exc = ""
    /\ types_compatible(python_to_db(db_type, pair[1].v.python_type).value, pair[2].db_type)

ReallyMatches(db_type, table, actual_columns) ==
    /\ DictKeySet(actual_columns) = DictKeySet(table.columns)
    /\ \A pair \in ColumnsPresent(table, actual_columns) :
          /\ types_compatible(python_to_db(db_type, UnionBase(pair[1].v.python_type)).value,
                              pair[2].db_type)
          /\ pair[1].v.primary_key = pair[2].is_primary_key
          /\ ~pair[1].v.primary_key => pair[1].v.nullable = pair[2].nullable

C28_OneQueryPerTableInOrder ==
    [][LET v == validation
           w == validation'
       IN /\ \/ w.queries = v.queries
             \/ /\ w.queries = Append(v.queries,
                                      IntrospectionQuery(w.db_type,
                                                         w.tables[Len(v.queries) + 1].name))
                /\ v.exc = ""
                /\ Len(v.answers) = Len(v.queries)
                /\ v.stage = "querying"
                /\ \A j \in 1..Len(v.queries) :
                      ReallyMatches(v.db_type, v.tables[j], v.answers[j])
          /\ v.stage = "raised" => w.queries = v.queries
          /\ (w.stage = "raised" /\ Len(w.tables) > 0) =>
                /\ Len(w.queries) = w.pos
                /\ w.exc = "AssertionError"
                /\ w.msg.table = w.tables[w.pos].name
                /\ ~ReallyMatches(w.db_type, w.tables[w.pos], w.answers[w.pos])
                /\ \A j \in 1..(w.pos - 1) :
                      ReallyMatches(w.db_type, w.tables[j], w.answers[j])
          /\ w.stage = "returned" =>
                /\ Len(w.queries) = Len(w.tables)
                /\ \A j \in 1..Len(w.tables) :
                      /\ w.queries[j] = IntrospectionQuery(w.db_type, w.tables[j].name)
                      /\ ReallyMatches(w.db_type, w.tables[j], w.answers[j])]_vars


(***************************************************************************)
(* C29: the construction of a Column fails exactly when primary_key and    *)
(* nullable are both true, or a default and a default_factory are both     *)
(* given, or a type is given that the type map of one of the three         *)
(* adapters lacks; every typed Column constructed is mapped by             *)
(* python_to_db of all three adapters.                                     *)
(***************************************************************************)
C29_ColumnConstruction ==
    made # None =>
        LET self == made[1].self
            typed == self.python_type # NoType
        IN /\ (made[1].result.exc # "") <=>
                 ( \/ (self.primary_key /\ self.nullable)
                   \/ (self.default # PyNone /\ self.default_factory # None)
                   \/ (typed /\ \E a \in DOMAIN Adapters :
                                  ~is_supported(Adapters[a], self.python_type)) )
           /\ (made[1].result.exc = "" /\ typed) =>
                 \A a \in DOMAIN Adapters :
                    python_to_db(Adapters[a], self.python_type).exc = ""

(***************************************************************************)
(* C30: every TableMetadata constructed has a name that is not empty, at   *)
(* least one column, at most one column flagged primary_key, and a         *)
(* primary_key that is empty when no column is flagged and the name of the *)
(* flagged column otherwise.                                               *)
(***************************************************************************)
C30_TableMetadataInvariant ==
    (meta # None /\ meta[1].result.exc = "") =>
        LET self == meta[1].self
            flagged == {self.columns[i].k : i \in {j \in DOMAIN self.columns :
                                                     self.columns[j].v.primary_key}}
        IN /\ self.name # ""
           /\ Len(self.columns) >= 1
           /\ Cardinality(flagged) <= 1
           /\ IF flagged = {} THEN self.primary_key = None
              ELSE self.primary_key \in {Some(n) : n \in flagged}

(***************************************************************************)
(* C31: the derived table name is the class name with every character      *)
(* lowercased and one separator put before an uppercase character at       *)
(* index i > 0 exactly when the character before it is lowercase or the    *)
(* character after it is lowercase; User gives user, UserProfile gives     *)
(* user_profile, HTTPServer gives http_server, URLPath gives url_path,     *)
(* URLRouter gives url_router, and a second derivation from the same class *)
(* name gives the same table name.                                         *)
(***************************************************************************)
SeparatedAt(class_name) ==
    {i \in DOMAIN class_name :
        /\ i > 1
        /\ isupper(class_name[i])
        /\ \/ islower(class_name[i - 1])
           \/ (i < Len(class_name) /\ islower(class_name[i + 1]))}

PlaceOf(class_name, i) ==
    i + Cardinality({j \in SeparatedAt(class_name) : j <= i})

RECURSIVE CalledAlone(_, _, _)
CalledAlone(self, calls, outs) ==
    IF Len(calls) = 0 THEN outs
    ELSE LET r == Invoke(self, Head(calls))
         IN CalledAlone(r.b, Tail(calls), Append(outs, r.out))

C33_BuildRepeatable ==
    instances # <<>> =>
        \A who \in {1, 2} :
            LET about == instances[1].about[who]
            IN \A n \in DOMAIN about.calls :
                  ( /\ n > 1
                    /\ about.calls[n - 1].name = "build"
                    /\ about.calls[n].name = "build"
                    /\ about.outs[n - 1].exc = ""
                    /\ about.outs[n].exc = "" ) =>
                       /\ about.outs[n].stmt.text = about.outs[n - 1].stmt.text
                       /\ about.outs[n].stmt.parameters = about.outs[n - 1].stmt.parameters

(***************************************************************************)
(* C34: the statement first(), all() or count() sends depends only on the  *)
(* clauses the caller set on the builder, not on the methods called on the *)
(* executable before: it is the statement the method sends when it is the first *)
(* call on the executable, so all() after first() has no LIMIT of first() and   *)
(* the parameters are those of a first build.                              *)
(***************************************************************************)
C34_SentIndependentOfHistory ==
    executable # <<>> =>
        \A n \in DOMAIN executable[1].sent :
            executable[1].sent[n].out = Execute(executable[1].asSet, executable[1].sent[n].method).out

(***************************************************************************)
(* C35: when the right-hand side of a comparison is a column handle, as in *)
(* join(Post).on(Post.user_id == User.id), the built text compares the two *)
(* columns by name and the parameters of the built statement hold no       *)
(* ColumnRef.                                                              *)
(***************************************************************************)
IsColumnRef(value) == "column_name" \in DOMAIN value

ComparesByName(text, condition) ==
    \E i \in 1..(Len(text) - 2) :
        SubSeq(text, i, i + 2)
            = <<condition.column_name, condition.operator, condition.value.column_name>>

C35_ColumnComparisonBindsNothing ==
    (builder # NoBuilder /\ last.op = "build" /\ last.exc = "") =>
        /\ \A i \in DOMAIN last.stmt.parameters : ~IsColumnRef(last.stmt.parameters[i])
        /\ \A n \in DOMAIN onCalls :
              IsColumnRef(onCalls[n].on_condition[1].value) =>
                  ComparesByName(last.stmt.text, onCalls[n].on_condition[1])

(***************************************************************************)
(* C36: when the body of async with pool.transaction() raises, none of the *)
(* statements executed through pool.execute inside the block is committed, *)
(* for each of the three database types and every pool size.               *)
(***************************************************************************)
C36_TransactionAllOrNothing ==
    (pool # <<>> /\ pool[1].pc = "done" /\ pool[1].body \in BodyExceptions) =>
        \A n \in DOMAIN pool[1].executed : pool[1].executed[n] \notin Committed(pool[1])

(***************************************************************************)
(* C37: on a postgresql pool transaction() sends BEGIN before the body     *)
(* runs and then exactly one of COMMIT, when the body finished, or         *)
(* ROLLBACK, when the body raised, the exception being raised again to the *)
(* caller; the connection acquired for the transaction is released exactly *)
(* once, after the block.                                                  *)
(***************************************************************************)
SentOver(self, conn) ==
    SelectSeq([i \in DOMAIN self.log |-> IF self.log[i].conn = conn THEN self.log[i].sql
                                          ELSE ""],
              LAMBDA sql : sql # "")

ReleasesOf(self, conn) == Len(SelectSeq(self.released, LAMBDA c : c = conn))

C37_BeginThenCommitOrRollback ==
    (pool # <<>> /\ pool[1].db_type = "postgresql" /\ pool[1].pc # "connected") =>
        LET self == pool[1]
            sent == SentOver(self, self.held)
        IN /\ self.log[1] = LogEntry(self.held, "BEGIN")
           /\ self.pc = "body" => sent = <<"BEGIN">> /\ ReleasesOf(self, self.held) = 0
           /\ self.pc = "done" =>
                 /\ self.body = "finished" => sent = <<"BEGIN", "COMMIT">> /\ self.raised = ""
                 /\ self.body \in BodyExceptions =>
                       sent = <<"BEGIN", "ROLLBACK">> /\ self.raised = self.body
                 /\ ReleasesOf(self, self.held) = 1

(***************************************************************************)
(* C38: with a registry attached, SelectQueryBuilder.build() succeeds      *)
(* whenever every FROM and JOIN table is in the registry and every column  *)
(* named in WHERE, JOIN-ON and ORDER BY is in the registry on one of those *)
(* FROM or JOIN tables.                                                    *)
(***************************************************************************)
FromAndJoinTables(self) ==
    {self.tables[i].name : i \in DOMAIN self.tables}
        \cup {self.join_clauses[i].table.name : i \in DOMAIN self.join_clauses}

ValidAgainstRegistry(self) ==
    /\ \A t \in FromAndJoinTables(self) : RegistryHolds(self.registry[1], t)
    /\ \A c \in ColumnsNamed(self) :
          \E t \in self.registry[1].snapshot.tables :
              t.name \in FromAndJoinTables(self) /\ c \in t.columns

C38_ValidQueryNotRejected ==
    [][(/\ builder.cls = "Select"
        /\ builder.registry # None
        /\ last'.op = "build"
        /\ builds' # builds
        /\ ValidAgainstRegistry(builder)) => last'.exc = ""]_vars

(***************************************************************************)
(* C39: InsertQueryBuilder.values(r1, ..., rn) is all-or-nothing: when the *)
(* call fails because one of the rows is empty or is neither a dict nor a  *)
(* model, none of r1..rn is added to the rows of the builder.              *)
(***************************************************************************)
C39_ValuesAllOrNothing ==
    [][(/\ builder.cls = "Insert"
        /\ last'.op = "values"
        /\ last'.exc # ""
        /\ builds' = builds) => builder'._values = builder._values]_vars

(***************************************************************************)
(* C40: from_tables on n declared tables with distinct class names gives a *)
(* snapshot of n table entries, one for each table and describing that     *)
(* table: none is dropped or overwritten by another, the table names       *)
(* derived from distinct class names being distinct.                       *)
(***************************************************************************)
C40_OneEntryPerDeclaredTable ==
    (subclasses # <<>> /\ subclasses[1].snapshot.exc = "") =>
        LET table_classes == subclasses[1].table_classes
            tables == subclasses[1].snapshot.value.tables
        IN /\ Len(tables) = Len(table_classes)
           /\ \A i \in DOMAIN table_classes :
                 \E k \in DOMAIN tables :
                    /\ tables[k].k = table_classes[i].name
                    /\ tables[k].v.name = table_classes[i].name
                    /\ DictKeys(tables[k].v.columns) = DictKeys(table_classes[i].columns)
                    /\ tables[k].v.primary_key = table_classes[i].primary_key
           /\ \A i \in DOMAIN table_classes : \A j \in DOMAIN table_classes :
                 i # j => table_classes[i].name # table_classes[j].name

=============================================================================
